---------------------------- MODULE Spec2Model ----------------------------
(***************************************************************************)
(* A model of the SLCI chatbot backend (src/app.py): the state resolver    *)
(* detect_state, the four document fetchers and the Shop & Establishment   *)
(* filter, the chat dispatcher, the pending-download token map with its    *)
(* 600 second window, and the lazily initialised database pool and         *)
(* spreadsheet client.                                                     *)
(*                                                                         *)
(* Text is modelled as a sequence of one-character strings, so that        *)
(* substring containment, lower-casing, stripping and the regular          *)
(* expressions of detect_state are computed rather than assumed.           *)
(***************************************************************************)
EXTENDS Integers, Sequences, FiniteSets, TLC

(***************************************************************************)
(* Text helpers (Python str / re semantics).                               *)
(***************************************************************************)
\* Python's None where a text value is expected.  No text equals it, since
\* every element of a text is a single character.
NoneStr == <<"<None>">>

\* Python's None where a URL or a result record is expected.
None == "None"

SetMin(S) == CHOOSE x \in S : \A y \in S : x <= y

SetMax(S) == CHOOSE x \in S : \A y \in S : x >= y

LowerLetters ==
  {"a","b","c","d","e","f","g","h","i","j","k","l","m",
   "n","o","p","q","r","s","t","u","v","w","x","y","z"}

UpperToLower ==
  [c \in {"A","B","C","D","E","F","G","H","I","J","K","L","M",
          "N","O","P","Q","R","S","T","U","V","W","X","Y","Z"} |->
     CASE c = "A" -> "a" [] c = "B" -> "b" [] c = "C" -> "c" [] c = "D" -> "d"
       [] c = "E" -> "e" [] c = "F" -> "f" [] c = "G" -> "g" [] c = "H" -> "h"
       [] c = "I" -> "i" [] c = "J" -> "j" [] c = "K" -> "k" [] c = "L" -> "l"
       [] c = "M" -> "m" [] c = "N" -> "n" [] c = "O" -> "o" [] c = "P" -> "p"
       [] c = "Q" -> "q" [] c = "R" -> "r" [] c = "S" -> "s" [] c = "T" -> "t"
       [] c = "U" -> "u" [] c = "V" -> "v" [] c = "W" -> "w" [] c = "X" -> "x"
       [] c = "Y" -> "y" [] c = "Z" -> "z"]

Digits == {"0","1","2","3","4","5","6","7","8","9"}

\* The characters \s matches.
WhiteSpace == {" ", "\t", "\n", "\r"}

\* str.lower()
Lower(s) ==
  [i \in 1..Len(s) |-> IF s[i] \in DOMAIN UpperToLower THEN UpperToLower[s[i]] ELSE s[i]]

\* str.strip()
Strip(s) ==
  LET keep == {i \in 1..Len(s) : s[i] \notin WhiteSpace}
  IN  IF keep = {} THEN <<>> ELSE SubSeq(s, SetMin(keep), SetMax(keep))

\* sub occurs in s at position i  (s[i : i+len(sub)] == sub)
OccursAt(sub, s, i) ==
  /\ i >= 1
  /\ i + Len(sub) - 1 <= Len(s)
  /\ \A j \in 1..Len(sub) : s[i + j - 1] = sub[j]

\* the containment test with its operands exchanged:  s in sub
Contains_exchanged(sub, s) == \E i \in 1..(Len(sub) - Len(s) + 1) : OccursAt(s, sub, i)

\* Python's  sub in s
Contains(sub, s) == \E i \in 1..(Len(s) - Len(sub) + 1) : OccursAt(sub, s, i)

\* ' '.join(parts)
RECURSIVE JoinSpace(_)
JoinSpace(parts) ==
  IF parts = <<>> THEN <<>>
  ELSE IF Len(parts) = 1 THEN parts[1]
  ELSE parts[1] \o <<" ">> \o JoinSpace(Tail(parts))

(***************************************************************************)
(* The three regular expressions of detect_state, as re.search evaluates   *)
(* them: leftmost start, then the backtracking order of the pattern.       *)
(***************************************************************************)
\* [a-zA-Z\s]
InClass(c) == c \in LowerLetters \/ c \in DOMAIN UpperToLower \/ c \in WhiteSpace

\* the length of the whitespace run that starts at position p
SpaceRun(s, p) ==
  SetMax({k \in 0..(Len(s) - p + 1) : \A j \in p..(p + k - 1) : s[j] \in WhiteSpace})

\* $ without re.MULTILINE: the end of the text, or just before a final newline
AtEnd(s, e) == e = Len(s) + 1 \/ (e = Len(s) /\ s[e] = "\n")

\* (?:\?|$|\.) at position e
Term1(s, e) == (e <= Len(s) /\ s[e] \in {"?", "."}) \/ AtEnd(s, e)

\* ([a-zA-Z\s]+?)(?:\?|$|\.) with the group starting at g: the position after
\* the shortest group, or 0 when there is none
GroupEnd1(s, g) ==
  LET es == {e \in (g + 1)..(Len(s) + 1) :
               (\A j \in g..(e - 1) : InClass(s[j])) /\ Term1(s, e)}
  IN  IF es = {} THEN 0 ELSE SetMin(es)

Pattern1Keywords == << <<"o","f">>, <<"f","o","r">>, <<"i","n">> >>

\* (?:of|for|in)\s+([a-zA-Z\s]+?)(?:\?|$|\.) anchored at i with alternative k:
\* the greedy \s+ gives whitespace back to the group until the rest matches
Pattern1At(s, i, k) ==
  LET kw   == Pattern1Keywords[k]
      q    == i + Len(kw)
      run  == IF OccursAt(kw, s, i) THEN SpaceRun(s, q) ELSE 0
      ns   == {n \in 1..run : GroupEnd1(s, q + n) # 0}
  IN  IF ns = {} THEN [matched |-> FALSE, group |-> <<>>]
      ELSE LET g == q + SetMax(ns)
           IN  [matched |-> TRUE, group |-> SubSeq(s, g, GroupEnd1(s, g) - 1)]

Pattern1(s) ==
  LET hits == {i \in 1..Len(s) : \E k \in 1..3 : Pattern1At(s, i, k).matched}
  IN  IF hits = {} THEN [matched |-> FALSE, group |-> <<>>]
      ELSE LET i == SetMin(hits)
               k == SetMin({k \in 1..3 : Pattern1At(s, i, k).matched})
           IN  Pattern1At(s, i, k)

Pattern2Keywords ==
  << <<"s","t","a","t","e">>, <<"a","c","t">>, <<"r","u","l","e","s">>, <<"l","a","w">> >>

\* \s+(?:state|act|rules|law) at position q
Pattern2Tail(s, q) ==
  /\ q <= Len(s)
  /\ s[q] \in WhiteSpace
  /\ \E k \in 1..4 : OccursAt(Pattern2Keywords[k], s, q + SpaceRun(s, q))

\* ([a-zA-Z\s]+?)\s+(?:state|act|rules|law) anchored at i: the position after
\* the shortest group, or 0
GroupEnd2(s, i) ==
  LET qs == {q \in (i + 1)..Len(s) :
               (\A j \in i..(q - 1) : InClass(s[j])) /\ Pattern2Tail(s, q)}
  IN  IF qs = {} THEN 0 ELSE SetMin(qs)

Pattern2(s) ==
  LET hits == {i \in 1..Len(s) : GroupEnd2(s, i) # 0}
  IN  IF hits = {} THEN [matched |-> FALSE, group |-> <<>>]
      ELSE LET i == SetMin(hits)
           IN  [matched |-> TRUE, group |-> SubSeq(s, i, GroupEnd2(s, i) - 1)]

Pattern3Head == <<"w","h","a","t"," ","i","s"," ">>

Pattern3Words == << <<"a","c","t">>, <<"r","u","l","e","s">>, <<"l","a","w">> >>

\* ' (?:act|rules|law) (?:of|for|in) ' at position p followed by at least one
\* character of the group: the position where the group starts, or 0
Pattern3Tail(s, p) ==
  LET gs == {g \in (p + 1)..Len(s) :
               \E a \in 1..3, b \in 1..3 :
                 /\ g = p + 1 + Len(Pattern3Words[a]) + 1 + Len(Pattern1Keywords[b]) + 1
                 /\ s[p] = " "
                 /\ OccursAt(Pattern3Words[a], s, p + 1)
                 /\ s[p + 1 + Len(Pattern3Words[a])] = " "
                 /\ OccursAt(Pattern1Keywords[b], s, p + 2 + Len(Pattern3Words[a]))
                 /\ s[g - 1] = " "
                 /\ InClass(s[g])}
  IN  IF gs = {} THEN 0 ELSE SetMin(gs)

\* what is .*? (?:act|rules|law) (?:of|for|in) ([a-zA-Z\s]+) anchored at i:
\* the lazy .*? (no newline) stops at the first place the rest matches
Pattern3At(s, i) ==
  LET ps == {p \in (i + Len(Pattern3Head))..Len(s) :
               /\ OccursAt(Pattern3Head, s, i)
               /\ \A j \in (i + Len(Pattern3Head))..(p - 1) : s[j] # "\n"
               /\ Pattern3Tail(s, p) # 0}
  IN  IF ps = {} THEN [matched |-> FALSE, group |-> <<>>]
      ELSE LET g   == Pattern3Tail(s, SetMin(ps))
               len == SetMax({k \in 1..(Len(s) - g + 1) :
                                \A j \in g..(g + k - 1) : InClass(s[j])})
           IN  [matched |-> TRUE, group |-> SubSeq(s, g, g + len - 1)]

Pattern3(s) ==
  LET hits == {i \in 1..Len(s) : Pattern3At(s, i).matched}
  IN  IF hits = {} THEN [matched |-> FALSE, group |-> <<>>]
      ELSE Pattern3At(s, SetMin(hits))

\* an extraction whose phrase is not taken from the message
ExtractState_foreign(message_lower) == <<"g", "o", "a">>

\* The loop over state_patterns: the first pattern that matches gives
\* extracted_state = match.group(1).strip(); none matching leaves it None.
ExtractState(message_lower) ==
  LET m1 == Pattern1(message_lower)
      m2 == Pattern2(message_lower)
      m3 == Pattern3(message_lower)
  IN  IF m1.matched THEN Strip(m1.group)
      ELSE IF m2.matched THEN Strip(m2.group)
      ELSE IF m3.matched THEN Strip(m3.group)
      ELSE NoneStr

\* Python truthiness of extracted_state: neither None nor ''
Truthy(x) == x # NoneStr /\ x # <<>>

\* Minimum-wages URL map, in insertion order (a dict iterates in that order).
STATE_MINIMUM_WAGE_URLS ==
  << [state |-> <<"d","a","m","a","n"," ","a","n","d"," ","d","i","u">>,
      url |-> "https://www.slci.in/daman-and-diu/"],
     [state |-> <<"a","r","u","n","c","h","a","l"," ","p","r","a","d","e","s","h">>,
      url |-> "https://www.slci.in/arunachal-pradesh/"],
     [state |-> <<"d","a","d","r","a"," ","a","n","d"," ","n","a","g","a","r"," ","h","a","v","e","l","i">>,
      url |-> "https://www.slci.in/dadra-and-nagar-haveli/"],
     [state |-> <<"a","n","d","a","m","a","n"," ","a","n","d"," ","n","i","c","o","b","a","r">>,
      url |-> "https://www.slci.in/andaman-and-nicobar-islands/"],
     [state |-> <<"d","e","l","h","i">>,
      url |-> "https://www.slci.in/minimum-wages/delhi/"],
     [state |-> <<"a","n","d","h","r","a"," ","p","r","a","d","e","s","h">>,
      url |-> "https://www.slci.in/minimum-wages/andhra-pradesh/"],
     [state |-> <<"a","s","s","a","m">>,
      url |-> "https://www.slci.in/minimum-wages/assam/"],
     [state |-> <<"b","i","h","a","r">>,
      url |-> "https://www.slci.in/minimum-wages/bihar/"],
     [state |-> <<"c","h","a","n","d","i","g","a","r","h">>,
      url |-> "https://www.slci.in/minimum-wages/chandigarh/"],
     [state |-> <<"c","h","h","a","t","t","i","s","g","a","r","h">>,
      url |-> "https://www.slci.in/minimum-wages/chhattisgarh/"],
     [state |-> <<"g","o","a">>,
      url |-> "https://www.slci.in/minimum-wages/goa/"],
     [state |-> <<"g","u","j","a","r","a","t">>,
      url |-> "https://www.slci.in/minimum-wages/gujarat/"],
     [state |-> <<"h","a","r","y","a","n","a">>,
      url |-> "https://www.slci.in/minimum-wages/haryana/"],
     [state |-> <<"h","i","m","a","c","h","a","l"," ","p","r","a","d","e","s","h">>,
      url |-> "https://www.slci.in/minimum-wages/himachal-pradesh/"],
     [state |-> <<"j","a","m","m","u"," ","a","n","d"," ","k","a","s","h","m","i","r">>,
      url |-> "https://www.slci.in/minimum-wages/jammu-and-kashmir/"],
     [state |-> <<"j","h","a","r","k","h","a","n","d">>,
      url |-> "https://www.slci.in/minimum-wages/jharkhand/"],
     [state |-> <<"k","a","r","n","a","t","a","k","a">>,
      url |-> "https://www.slci.in/minimum-wages/karnataka/"],
     [state |-> <<"k","e","r","a","l","a">>,
      url |-> "https://www.slci.in/minimum-wages/kerala/"],
     [state |-> <<"l","a","d","a","k","h">>,
      url |-> "https://www.slci.in/minimum-wages/ladakh/"],
     [state |-> <<"m","a","d","h","y","a"," ","p","r","a","d","e","s","h">>,
      url |-> "https://www.slci.in/minimum-wages/madhya-pradesh/"],
     [state |-> <<"m","a","h","a","r","a","s","h","t","r","a">>,
      url |-> "https://www.slci.in/minimum-wages/maharashtra/"],
     [state |-> <<"m","a","n","i","p","u","r">>,
      url |-> "https://www.slci.in/minimum-wages/manipur/"],
     [state |-> <<"m","e","g","h","a","l","a","y","a">>,
      url |-> "https://www.slci.in/minimum-wages/meghalaya/"],
     [state |-> <<"m","i","z","o","r","a","m">>,
      url |-> "https://www.slci.in/minimum-wages/mizoram/"],
     [state |-> <<"n","a","g","a","l","a","n","d">>,
      url |-> "https://www.slci.in/minimum-wages/nagaland/"],
     [state |-> <<"o","d","i","s","h","a">>,
      url |-> "https://www.slci.in/minimum-wages/odisha/"],
     [state |-> <<"p","u","d","u","c","h","e","r","r","y">>,
      url |-> "https://www.slci.in/minimum-wages/puducherry/"],
     [state |-> <<"p","u","n","j","a","b">>,
      url |-> "https://www.slci.in/minimum-wages/punjab/"],
     [state |-> <<"r","a","j","a","s","t","h","a","n">>,
      url |-> "https://www.slci.in/minimum-wages/rajasthan/"],
     [state |-> <<"s","i","k","k","i","m">>,
      url |-> "https://www.slci.in/minimum-wages/sikkim/"],
     [state |-> <<"t","a","m","i","l"," ","n","a","d","u">>,
      url |-> "https://www.slci.in/minimum-wages/tamil-nadu/"],
     [state |-> <<"t","e","l","a","n","g","a","n","a">>,
      url |-> "https://www.slci.in/minimum-wages/telangana/"],
     [state |-> <<"t","r","i","p","u","r","a">>,
      url |-> "https://www.slci.in/minimum-wages/tripura/"],
     [state |-> <<"u","t","t","a","r"," ","p","r","a","d","e","s","h">>,
      url |-> "https://www.slci.in/minimum-wages/uttar-pradesh/"],
     [state |-> <<"u","t","t","a","r","a","k","h","a","n","d">>,
      url |-> "https://www.slci.in/minimum-wages/uttarakhand/"],
     [state |-> <<"w","e","s","t"," ","b","e","n","g","a","l">>,
      url |-> "https://www.slci.in/minimum-wages/west-bengal/"] >>

\* Holiday-list URL map, in insertion order.
STATE_HOLIDAY_URLS ==
  << [state |-> <<"a","n","d","a","m","a","n"," ","a","n","d"," ","n","i","c","o","b","a","r">>,
      url |-> "https://www.slci.in/andaman-and-nicobar-islands-holiday-list/"],
     [state |-> <<"a","n","d","h","r","a"," ","p","r","a","d","e","s","h">>,
      url |-> "https://www.slci.in/andhra-pradesh-holiday-list/"],
     [state |-> <<"a","r","u","n","a","c","h","a","l"," ","p","r","a","d","e","s","h">>,
      url |-> "https://www.slci.in/arunachal-pradesh-holiday-list/"],
     [state |-> <<"a","s","s","a","m">>,
      url |-> "https://www.slci.in/assam-holiday-list/"],
     [state |-> <<"b","i","h","a","r">>,
      url |-> "https://www.slci.in/bihar-holiday-list/"],
     [state |-> <<"c","h","a","n","d","i","g","a","r","h">>,
      url |-> "https://www.slci.in/chandigarh-holiday-list/"],
     [state |-> <<"c","h","h","a","t","t","i","s","g","a","r","h">>,
      url |-> "https://www.slci.in/chhattisgarh-holiday-list/"],
     [state |-> <<"d","a","m","a","n"," ","a","n","d"," ","d","i","u">>,
      url |-> "https://www.slci.in/daman-and-diu-holiday-list/"],
     [state |-> <<"d","e","l","h","i">>,
      url |-> "https://www.slci.in/delhi-holiday-list/"],
     [state |-> <<"g","o","a">>,
      url |-> "https://www.slci.in/goa-holiday-list/"],
     [state |-> <<"g","u","j","a","r","a","t">>,
      url |-> "https://www.slci.in/gujarat-holiday-list/"],
     [state |-> <<"h","a","r","y","a","n","a">>,
      url |-> "https://www.slci.in/haryana-holiday-list/"],
     [state |-> <<"h","i","m","a","c","h","a","l"," ","p","r","a","d","e","s","h">>,
      url |-> "https://www.slci.in/himachal-pradesh-holiday-list/"],
     [state |-> <<"j","a","m","m","u"," ","a","n","d"," ","k","a","s","h","m","i","r">>,
      url |-> "https://www.slci.in/jammu-and-kashmir-holiday-list/"],
     [state |-> <<"j","h","a","r","k","h","a","n","d">>,
      url |-> "https://www.slci.in/jharkhand-holiday-list/"],
     [state |-> <<"k","a","r","n","a","t","a","k","a">>,
      url |-> "https://www.slci.in/karnataka-holiday-list/"],
     [state |-> <<"k","e","r","a","l","a">>,
      url |-> "https://www.slci.in/kerala-holiday-list/"],
     [state |-> <<"m","a","h","a","r","a","s","h","t","r","a">>,
      url |-> "https://www.slci.in/maharashtra-holiday-list/"],
     [state |-> <<"m","a","n","i","p","u","r">>,
      url |-> "https://www.slci.in/manipur-holiday-list/"],
     [state |-> <<"m","e","g","h","a","l","a","y","a">>,
      url |-> "https://www.slci.in/meghalaya-holiday-list/"],
     [state |-> <<"m","i","z","o","r","a","m">>,
      url |-> "https://www.slci.in/mizoram-holiday-list/"],
     [state |-> <<"m","a","d","h","y","a"," ","p","r","a","d","e","s","h">>,
      url |-> "https://www.slci.in/madhya-pradesh-holiday-list/"],
     [state |-> <<"n","a","g","a","l","a","n","d">>,
      url |-> "https://www.slci.in/nagaland-holiday-list/"],
     [state |-> <<"o","d","i","s","h","a">>,
      url |-> "https://www.slci.in/odisha-holiday-list/"],
     [state |-> <<"p","u","d","u","c","h","e","r","r","y">>,
      url |-> "https://www.slci.in/puducherry-holiday-list/"],
     [state |-> <<"p","u","n","j","a","b">>,
      url |-> "https://www.slci.in/punjab-holiday-list/"],
     [state |-> <<"r","a","j","a","s","t","h","a","n">>,
      url |-> "https://www.slci.in/rajasthan-holiday-list/"],
     [state |-> <<"s","i","k","k","i","m">>,
      url |-> "https://www.slci.in/sikkim-holiday-list/"],
     [state |-> <<"t","a","m","i","l"," ","n","a","d","u">>,
      url |-> "https://www.slci.in/tamil-nadu-holiday-list/"],
     [state |-> <<"t","e","l","a","n","g","a","n","a">>,
      url |-> "https://www.slci.in/telangana-holiday-list/"],
     [state |-> <<"t","r","i","p","u","r","a">>,
      url |-> "https://www.slci.in/tripura-holiday-list/"],
     [state |-> <<"u","t","t","a","r"," ","p","r","a","d","e","s","h">>,
      url |-> "https://www.slci.in/uttar-pradesh-holiday-list/"],
     [state |-> <<"u","t","t","a","r","a","k","h","a","n","d">>,
      url |-> "https://www.slci.in/uttarakhand-holiday-list/"],
     [state |-> <<"w","e","s","t"," ","b","e","n","g","a","l">>,
      url |-> "https://www.slci.in/west-bengal-holiday-list/"] >>

\* Working-hours URL map, in insertion order.
STATE_WORKING_HOURS_URLS ==
  << [state |-> <<"a","n","d","a","m","a","n"," ","a","n","d"," ","n","i","c","o","b","a","r">>,
      url |-> "https://www.slci.in/andaman-and-nicobar-islands-working-hours/"],
     [state |-> <<"a","n","d","h","r","a"," ","p","r","a","d","e","s","h">>,
      url |-> "https://www.slci.in/andhra-pradesh-working-hours/"],
     [state |-> <<"a","s","s","a","m">>,
      url |-> "https://www.slci.in/assam-working-hours/"],
     [state |-> <<"b","i","h","a","r">>,
      url |-> "https://www.slci.in/bihar-working-hours/"],
     [state |-> <<"c","h","a","n","d","i","g","a","r","h">>,
      url |-> "https://www.slci.in/chandigarh-working-hours/"],
     [state |-> <<"c","h","h","a","t","t","i","s","g","a","r","h">>,
      url |-> "https://www.slci.in/chhattisgarh-working-hours/"],
     [state |-> <<"d","a","d","r","a"," ","a","n","d"," ","n","a","g","a","r"," ","h","a","v","e","l","i">>,
      url |-> "https://www.slci.in/dadra-and-nagar-haveli-working-hours/"],
     [state |-> <<"d","a","m","a","n"," ","a","n","d"," ","d","i","u">>,
      url |-> "https://www.slci.in/daman-and-diu-working-hours/"],
     [state |-> <<"d","e","l","h","i">>,
      url |-> "https://www.slci.in/delhi-working-hours/"],
     [state |-> <<"g","o","a">>,
      url |-> "https://www.slci.in/goa-working-hours/"],
     [state |-> <<"g","u","j","a","r","a","t">>,
      url |-> "https://www.slci.in/gujarat-working-hours/"],
     [state |-> <<"h","a","r","y","a","n","a">>,
      url |-> "https://www.slci.in/haryana-working-hours/"],
     [state |-> <<"h","i","m","a","c","h","a","l"," ","p","r","a","d","e","s","h">>,
      url |-> "https://www.slci.in/himachal-pradesh-working-hours/"],
     [state |-> <<"j","a","m","m","u"," ","a","n","d"," ","k","a","s","h","m","i","r">>,
      url |-> "https://www.slci.in/jammu-and-kashmir-working-hours/"],
     [state |-> <<"j","h","a","r","k","h","a","n","d">>,
      url |-> "https://www.slci.in/jharkhand-working-hours/"],
     [state |-> <<"k","a","r","n","a","t","a","k","a">>,
      url |-> "https://www.slci.in/karnataka-working-hours/"],
     [state |-> <<"k","e","r","a","l","a">>,
      url |-> "https://www.slci.in/kerala-working-hours/"],
     [state |-> <<"m","a","h","a","r","a","s","h","t","r","a">>,
      url |-> "https://www.slci.in/maharashtra-working-hours/"],
     [state |-> <<"m","a","n","i","p","u","r">>,
      url |-> "https://www.slci.in/manipur-working-hours/"],
     [state |-> <<"m","e","g","h","a","l","a","y","a">>,
      url |-> "https://www.slci.in/meghalaya-working-hours/"],
     [state |-> <<"m","a","d","h","y","a"," ","p","r","a","d","e","s","h">>,
      url |-> "https://www.slci.in/madhya-pradesh-working-hours/"],
     [state |-> <<"n","a","g","a","l","a","n","d">>,
      url |-> "https://www.slci.in/nagaland-working-hours/"],
     [state |-> <<"o","d","i","s","h","a">>,
      url |-> "https://www.slci.in/odisha-working-hours/"],
     [state |-> <<"p","u","d","u","c","h","e","r","r","y">>,
      url |-> "https://www.slci.in/puducherry-working-hours/"],
     [state |-> <<"p","u","n","j","a","b">>,
      url |-> "https://www.slci.in/punjab-working-hours/"],
     [state |-> <<"r","a","j","a","s","t","h","a","n">>,
      url |-> "https://www.slci.in/rajasthan-working-hours/"],
     [state |-> <<"s","i","k","k","i","m">>,
      url |-> "https://www.slci.in/sikkim-working-hours/"],
     [state |-> <<"t","e","l","a","n","g","a","n","a">>,
      url |-> "https://www.slci.in/telangana-working-hours/"],
     [state |-> <<"t","a","m","i","l"," ","n","a","d","u">>,
      url |-> "https://www.slci.in/tamil-nadu-working-hours/"],
     [state |-> <<"t","r","i","p","u","r","a">>,
      url |-> "https://www.slci.in/tripura-working-hours/"],
     [state |-> <<"u","t","t","a","r"," ","p","r","a","d","e","s","h">>,
      url |-> "https://www.slci.in/uttar-pradesh-working-hours/"],
     [state |-> <<"u","t","t","a","r","a","k","h","a","n","d">>,
      url |-> "https://www.slci.in/uttarakhand-working-hours/"],
     [state |-> <<"w","e","s","t"," ","b","e","n","g","a","l">>,
      url |-> "https://www.slci.in/west-bengal-working-hours/"] >>

\* State name -> colloquial variants, in insertion order.
STATE_VARIATIONS ==
  << [state |-> <<"a","n","d","a","m","a","n"," ","a","n","d"," ","n","i","c","o","b","a","r">>,
      variations |-> << <<"a","n","d","a","m","a","n">>,
                        <<"n","i","c","o","b","a","r">>,
                        <<"a","n","d","a","m","a","n"," ","a","n","d"," ","n","i","c","o","b","a","r">>,
                        <<"a","n","d","a","m","a","n"," ","&"," ","n","i","c","o","b","a","r">> >>],
     [state |-> <<"a","n","d","h","r","a"," ","p","r","a","d","e","s","h">>,
      variations |-> << <<"a","n","d","h","r","a"," ","p","r","a","d","e","s","h">>,
                        <<"a","n","d","h","r","a">>,
                        <<"v","i","s","a","k","h","a","p","a","t","n","a","m">>,
                        <<"v","i","z","a","g">> >>],
     [state |-> <<"a","s","s","a","m">>,
      variations |-> << <<"a","s","s","a","m">>,
                        <<"g","u","w","a","h","a","t","i">>,
                        <<"d","i","s","p","u","r">> >>],
     [state |-> <<"b","i","h","a","r">>,
      variations |-> << <<"b","i","h","a","r">>,
                        <<"p","a","t","n","a">>,
                        <<"g","a","y","a">> >>],
     [state |-> <<"c","h","a","n","d","i","g","a","r","h">>,
      variations |-> << <<"c","h","a","n","d","i","g","a","r","h">> >>],
     [state |-> <<"c","h","h","a","t","t","i","s","g","a","r","h">>,
      variations |-> << <<"c","h","h","a","t","t","i","s","g","a","r","h">>,
                        <<"r","a","i","p","u","r">>,
                        <<"b","i","l","a","s","p","u","r">> >>],
     [state |-> <<"d","a","d","r","a"," ","a","n","d"," ","n","a","g","a","r"," ","h","a","v","e","l","i">>,
      variations |-> << <<"d","a","d","r","a">>,
                        <<"n","a","g","a","r"," ","h","a","v","e","l","i">>,
                        <<"d","a","d","r","a"," ","a","n","d"," ","n","a","g","a","r"," ","h","a","v","e","l","i">> >>],
     [state |-> <<"d","a","m","a","n"," ","a","n","d"," ","d","i","u">>,
      variations |-> << <<"d","a","m","a","n">>,
                        <<"d","i","u">>,
                        <<"d","a","m","a","n"," ","a","n","d"," ","d","i","u">> >>],
     [state |-> <<"d","e","l","h","i">>,
      variations |-> << <<"d","e","l","h","i">>,
                        <<"d","i","l","l","i">>,
                        <<"n","c","t"," ","o","f"," ","d","e","l","h","i">>,
                        <<"n","e","w"," ","d","e","l","h","i">> >>],
     [state |-> <<"g","o","a">>,
      variations |-> << <<"g","o","a">>,
                        <<"p","a","n","a","j","i">>,
                        <<"p","a","n","j","i","m">>,
                        <<"m","a","r","g","a","o">> >>],
     [state |-> <<"g","u","j","a","r","a","t">>,
      variations |-> << <<"g","u","j","a","r","a","t">>,
                        <<"a","h","m","e","d","a","b","a","d">>,
                        <<"s","u","r","a","t">>,
                        <<"v","a","d","o","d","a","r","a">>,
                        <<"b","a","r","o","d","a">> >>],
     [state |-> <<"h","a","r","y","a","n","a">>,
      variations |-> << <<"h","a","r","y","a","n","a">>,
                        <<"g","u","r","g","a","o","n">>,
                        <<"g","u","r","u","g","r","a","m">>,
                        <<"f","a","r","i","d","a","b","a","d">>,
                        <<"p","a","n","i","p","a","t">> >>],
     [state |-> <<"h","i","m","a","c","h","a","l"," ","p","r","a","d","e","s","h">>,
      variations |-> << <<"h","i","m","a","c","h","a","l"," ","p","r","a","d","e","s","h">>,
                        <<"h","p">>,
                        <<"s","h","i","m","l","a">>,
                        <<"m","a","n","a","l","i">> >>],
     [state |-> <<"j","a","m","m","u"," ","a","n","d"," ","k","a","s","h","m","i","r">>,
      variations |-> << <<"j","a","m","m","u"," ","a","n","d"," ","k","a","s","h","m","i","r">>,
                        <<"j","&","k">>,
                        <<"s","r","i","n","a","g","a","r">>,
                        <<"j","a","m","m","u">> >>],
     [state |-> <<"j","h","a","r","k","h","a","n","d">>,
      variations |-> << <<"j","h","a","r","k","h","a","n","d">>,
                        <<"r","a","n","c","h","i">>,
                        <<"j","a","m","s","h","e","d","p","u","r">> >>],
     [state |-> <<"k","a","r","n","a","t","a","k","a">>,
      variations |-> << <<"k","a","r","n","a","t","a","k","a">>,
                        <<"b","a","n","g","a","l","o","r","e">>,
                        <<"b","e","n","g","a","l","u","r","u">>,
                        <<"m","y","s","o","r","e">>,
                        <<"m","a","n","g","a","l","o","r","e">> >>],
     [state |-> <<"k","e","r","a","l","a">>,
      variations |-> << <<"k","e","r","a","l","a">>,
                        <<"k","o","c","h","i">>,
                        <<"t","r","i","v","a","n","d","r","u","m">>,
                        <<"t","h","i","r","u","v","a","n","a","n","t","h","a","p","u","r","a","m">>,
                        <<"c","a","l","i","c","u","t">> >>],
     [state |-> <<"m","a","d","h","y","a"," ","p","r","a","d","e","s","h">>,
      variations |-> << <<"m","a","d","h","y","a"," ","p","r","a","d","e","s","h">>,
                        <<"m","p">>,
                        <<"b","h","o","p","a","l">>,
                        <<"i","n","d","o","r","e">>,
                        <<"g","w","a","l","i","o","r">> >>],
     [state |-> <<"m","a","h","a","r","a","s","h","t","r","a">>,
      variations |-> << <<"m","a","h","a","r","a","s","h","t","r","a">>,
                        <<"m","u","m","b","a","i">>,
                        <<"p","u","n","e">>,
                        <<"n","a","g","p","u","r">>,
                        <<"t","h","a","n","e">> >>],
     [state |-> <<"m","a","n","i","p","u","r">>,
      variations |-> << <<"m","a","n","i","p","u","r">>,
                        <<"i","m","p","h","a","l">> >>],
     [state |-> <<"m","e","g","h","a","l","a","y","a">>,
      variations |-> << <<"m","e","g","h","a","l","a","y","a">>,
                        <<"s","h","i","l","l","o","n","g">> >>],
     [state |-> <<"m","i","z","o","r","a","m">>,
      variations |-> << <<"m","i","z","o","r","a","m">>,
                        <<"a","i","z","a","w","l">> >>],
     [state |-> <<"n","a","g","a","l","a","n","d">>,
      variations |-> << <<"n","a","g","a","l","a","n","d">>,
                        <<"k","o","h","i","m","a">>,
                        <<"d","i","m","a","p","u","r">> >>],
     [state |-> <<"o","d","i","s","h","a">>,
      variations |-> << <<"o","d","i","s","h","a">>,
                        <<"o","r","i","s","s","a">>,
                        <<"b","h","u","b","a","n","e","s","w","a","r">>,
                        <<"c","u","t","t","a","c","k">> >>],
     [state |-> <<"p","o","n","d","i","c","h","e","r","r","y">>,
      variations |-> << <<"p","o","n","d","i","c","h","e","r","r","y">>,
                        <<"p","u","d","u","c","h","e","r","r","y">> >>],
     [state |-> <<"p","u","n","j","a","b">>,
      variations |-> << <<"p","u","n","j","a","b">> >>],
     [state |-> <<"r","a","j","a","s","t","h","a","n">>,
      variations |-> << <<"r","a","j","a","s","t","h","a","n">>,
                        <<"j","a","i","p","u","r">>,
                        <<"j","o","d","h","p","u","r">>,
                        <<"u","d","a","i","p","u","r">>,
                        <<"k","o","t","a">> >>],
     [state |-> <<"s","i","k","k","i","m">>,
      variations |-> << <<"s","i","k","k","i","m">>,
                        <<"g","a","n","g","t","o","k">> >>],
     [state |-> <<"t","a","m","i","l"," ","n","a","d","u">>,
      variations |-> << <<"t","a","m","i","l"," ","n","a","d","u">>,
                        <<"t","a","m","i","l","n","a","d","u">>,
                        <<"c","h","e","n","n","a","i">>,
                        <<"m","a","d","r","a","s">>,
                        <<"c","o","i","m","b","a","t","o","r","e">> >>],
     [state |-> <<"t","e","l","a","n","g","a","n","a">>,
      variations |-> << <<"t","e","l","a","n","g","a","n","a">>,
                        <<"h","y","d","e","r","a","b","a","d">>,
                        <<"s","e","c","u","n","d","e","r","a","b","a","d">> >>],
     [state |-> <<"t","r","i","p","u","r","a">>,
      variations |-> << <<"t","r","i","p","u","r","a">>,
                        <<"a","g","a","r","t","a","l","a">> >>],
     [state |-> <<"u","t","t","a","r"," ","p","r","a","d","e","s","h">>,
      variations |-> << <<"u","t","t","a","r"," ","p","r","a","d","e","s","h">>,
                        <<"u","p">>,
                        <<"l","u","c","k","n","o","w">>,
                        <<"k","a","n","p","u","r">>,
                        <<"a","g","r","a">>,
                        <<"v","a","r","a","n","a","s","i">> >>],
     [state |-> <<"u","t","t","a","r","a","k","h","a","n","d">>,
      variations |-> << <<"u","t","t","a","r","a","k","h","a","n","d">>,
                        <<"d","e","h","r","a","d","u","n">>,
                        <<"h","a","r","i","d","w","a","r">>,
                        <<"n","a","i","n","i","t","a","l">> >>],
     [state |-> <<"w","e","s","t"," ","b","e","n","g","a","l">>,
      variations |-> << <<"w","e","s","t"," ","b","e","n","g","a","l">>,
                        <<"b","e","n","g","a","l">>,
                        <<"k","o","l","k","a","t","a">>,
                        <<"c","a","l","c","u","t","t","a">>,
                        <<"h","o","w","r","a","h">> >>] >>
SHOP_ESTABLISHMENT_MAIN_URL == "https://www.slci.in/shops-and-establishments-act/"

\* The four document categories (act_type).
ActTypes == {"minimum_wages", "holiday_list", "working_hours", "shop_establishment"}

\* dict.get(state) on a URL map: the URL, or None
UrlGet(url_dict, state) ==
  IF \E i \in 1..Len(url_dict) : url_dict[i].state = state
  THEN url_dict[CHOOSE i \in 1..Len(url_dict) : url_dict[i].state = state].url
  ELSE None

\* STATE_VARIATIONS.get(state, default)
VariationsGet(state, default) ==
  IF \E i \in 1..Len(STATE_VARIATIONS) : STATE_VARIATIONS[i].state = state
  THEN STATE_VARIATIONS[CHOOSE i \in 1..Len(STATE_VARIATIONS) :
                          STATE_VARIATIONS[i].state = state].variations
  ELSE default

\* the first index of a loop at which the body returns, or 0 when none does
FirstHit(S) == IF S = {} THEN 0 ELSE SetMin(S)

NoState == [state |-> NoneStr, url |-> None]

\* act_type == "minimum_wages": the keys of the URL map first, then every
\* variation of every state against the message or the extracted phrase
DetectMinimumWages(message_lower, extracted_state) ==
  LET direct == FirstHit({i \in 1..Len(STATE_MINIMUM_WAGE_URLS) :
                            Contains(STATE_MINIMUM_WAGE_URLS[i].state, message_lower)})
      byVar  == FirstHit({i \in 1..Len(STATE_VARIATIONS) :
                  \E v \in 1..Len(STATE_VARIATIONS[i].variations) :
                    \/ Contains(STATE_VARIATIONS[i].variations[v], message_lower)
                    \/ /\ Truthy(extracted_state)
                       /\ Contains(STATE_VARIATIONS[i].variations[v], extracted_state)})
  IN  IF direct # 0
      THEN [state |-> STATE_MINIMUM_WAGE_URLS[direct].state,
            url   |-> STATE_MINIMUM_WAGE_URLS[direct].url]
      ELSE IF byVar # 0
      THEN LET state == STATE_VARIATIONS[byVar].state
           IN  [state |-> state,
                url   |-> IF UrlGet(STATE_MINIMUM_WAGE_URLS, state) # None
                          THEN UrlGet(STATE_MINIMUM_WAGE_URLS, state)
                          ELSE UrlGet(STATE_MINIMUM_WAGE_URLS, Lower(state))]
      ELSE NoState

\* act_type == "holiday_list" / "working_hours": one loop over the URL map;
\* each state is tried by name (message or extracted phrase), then by its
\* variations, before the next state is looked at
DetectByUrlMap(url_dict, message_lower, extracted_state) ==
  LET hit == FirstHit({i \in 1..Len(url_dict) :
               \/ Contains(url_dict[i].state, message_lower)
               \/ /\ Truthy(extracted_state)
                  /\ Contains(url_dict[i].state, extracted_state)
               \/ LET vars == VariationsGet(url_dict[i].state, <<>>)
                  IN  \E v \in 1..Len(vars) : Contains(vars[v], message_lower)})
  IN  IF hit # 0
      THEN [state |-> url_dict[hit].state, url |-> url_dict[hit].url]
      ELSE NoState

\* act_type == "shop_establishment": state names, then variations, then both
\* again against the extracted phrase
DetectShopEstablishment(message_lower, extracted_state) ==
  LET direct == FirstHit({i \in 1..Len(STATE_VARIATIONS) :
                            Contains(STATE_VARIATIONS[i].state, message_lower)})
      byVar  == FirstHit({i \in 1..Len(STATE_VARIATIONS) :
                  \E v \in 1..Len(STATE_VARIATIONS[i].variations) :
                    Contains(STATE_VARIATIONS[i].variations[v], message_lower)})
      byExt  == IF Truthy(extracted_state)
                THEN FirstHit({i \in 1..Len(STATE_VARIATIONS) :
                       \/ Contains(STATE_VARIATIONS[i].state, Lower(extracted_state))
                       \/ \E v \in 1..Len(STATE_VARIATIONS[i].variations) :
                            Contains(STATE_VARIATIONS[i].variations[v],
                                     Lower(extracted_state))})
                ELSE 0
  IN  IF direct # 0
      THEN [state |-> STATE_VARIATIONS[direct].state, url |-> SHOP_ESTABLISHMENT_MAIN_URL]
      ELSE IF byVar # 0
      THEN [state |-> STATE_VARIATIONS[byVar].state, url |-> SHOP_ESTABLISHMENT_MAIN_URL]
      ELSE IF byExt # 0
      THEN [state |-> STATE_VARIATIONS[byExt].state, url |-> SHOP_ESTABLISHMENT_MAIN_URL]
      ELSE NoState

\* detect_state(message, act_type) -> (state, url)
detect_state(message, act_type) ==
  LET message_lower   == Lower(message)
      extracted_state == ExtractState(message_lower)
  IN  CASE act_type = "minimum_wages" ->
             DetectMinimumWages(message_lower, extracted_state)
        [] act_type = "holiday_list" ->
             DetectByUrlMap(STATE_HOLIDAY_URLS, message_lower, extracted_state)
        [] act_type = "working_hours" ->
             DetectByUrlMap(STATE_WORKING_HOURS_URLS, message_lower, extracted_state)
        [] act_type = "shop_establishment" ->
             DetectShopEstablishment(message_lower, extracted_state)
        [] OTHER -> NoState

(***************************************************************************)
(* clean_date: the normal form of the date that a pattern captured.        *)
(***************************************************************************)
Letters == LowerLetters \cup DOMAIN UpperToLower

\* (?:st|nd|rd|th)
DaySuffixes == { <<"s","t">>, <<"n","d">>, <<"r","d">>, <<"t","h">> }

\* every character of s from i to j is in class
AllIn(s, i, j, class) == \A k \in i..j : s[k] \in class

\* \s+[A-Za-z]+,?\s+\d{4} from position q + 1 of s: white space up to a,
\* letters up to b, a comma or none, white space up to d, four digits
WordTail(s, q) ==
  \E a \in (q + 1)..Len(s) : \E b \in (a + 1)..Len(s) :
    /\ AllIn(s, q + 1, a, WhiteSpace)
    /\ AllIn(s, a + 1, b, Letters)
    /\ \E c \in {b, b + 1} :
         /\ c = b + 1 => (c <= Len(s) /\ s[c] = ",")
         /\ \E d \in (c + 1)..(Len(s) - 4) :
              /\ AllIn(s, c + 1, d, WhiteSpace)
              /\ AllIn(s, d + 1, d + 4, Digits)

\* re.search(r'\d{1,2}(?:st|nd|rd|th)?\s+[A-Za-z]+,?\s+\d{4}', s): the last
\* digit of the day at p, with a suffix or none
WordForm(s) ==
  \E p \in 1..Len(s) :
    /\ s[p] \in Digits
    /\ \/ WordTail(s, p)
       \/ /\ p + 2 <= Len(s)
          /\ SubSeq(s, p + 1, p + 2) \in DaySuffixes
          /\ WordTail(s, p + 2)

\* date_str.split(separator)
RECURSIVE Split(_, _)
Split(s, separator) ==
  IF \A i \in 1..Len(s) : s[i] # separator
  THEN <<s>>
  ELSE <<SubSeq(s, 1, SetMin({i \in 1..Len(s) : s[i] = separator}) - 1)>>
         \o Split(SubSeq(s, SetMin({i \in 1..Len(s) : s[i] = separator}) + 1, Len(s)),
                  separator)

\* a year of two characters gets "20" before it
ExpandYear(year) == IF Len(year) = 2 THEN <<"2","0">> \o year ELSE year

\* f"{parts[0]}/{parts[1]}/{parts[2]}" when there are three parts
JoinDate(parts, s) ==
  IF Len(parts) = 3
  THEN parts[1] \o <<"/">> \o parts[2] \o <<"/">> \o ExpandYear(parts[3])
  ELSE s

\* clean_date after date_str.strip()
CleanStripped(s) ==
  IF WordForm(s) THEN s
  ELSE IF \E i \in 1..Len(s) : s[i] = "/" THEN JoinDate(Split(s, "/"), s)
  ELSE IF \E i \in 1..Len(s) : s[i] = "-" THEN JoinDate(Split(s, "-"), s)
  ELSE s

\* clean_date(date_str); None and "" give None
clean_date(date_str) ==
  IF date_str = NoneStr \/ date_str = <<>> THEN NoneStr
  ELSE CleanStripped(Strip(date_str))

(***************************************************************************)
(* The upstream page and the table extractor.                              *)
(*                                                                         *)
(* requests.get either raises (connection error, timeout) or returns a     *)
(* response with a status code and a body.  The parsed body (soup) is a    *)
(* sequence of <table> elements, each a sequence of <tr> rows, each a      *)
(* sequence of the texts of its <td>/<th> cells, together with the date    *)
(* a pattern of extract_effective_date captures (NoneStr when none does).  *)
(***************************************************************************)
DlBtn == <<"[","d","l","_","b","t","n","]">>

\* ' '.join(text.split()): whitespace runs become one space, the ends are cut
RECURSIVE CollapseSpace(_)
CollapseSpace(s) ==
  LET t == Strip(s)
  IN  IF t = <<>> THEN <<>>
      ELSE LET ws == {i \in 1..Len(t) : t[i] \in WhiteSpace}
           IN  IF ws = {} THEN t
               ELSE LET i == SetMin(ws)
                    IN  SubSeq(t, 1, i - 1) \o <<" ">>
                          \o CollapseSpace(SubSeq(t, i + 1, Len(t)))

\* text.replace('[dl_btn]', '')
RECURSIVE RemoveDlBtn(_)
RemoveDlBtn(s) ==
  LET at == {i \in 1..Len(s) : OccursAt(DlBtn, s, i)}
  IN  IF at = {} THEN s
      ELSE LET i == SetMin(at)
           IN  SubSeq(s, 1, i - 1) \o RemoveDlBtn(SubSeq(s, i + Len(DlBtn), Len(s)))

\* one cell of extract_table_data
CleanCell(text) == Strip(RemoveDlBtn(CollapseSpace(Strip(text))))

\* a loop over the rows that keeps the rows without cells
ExtractRows_keep(rows) ==
  [r \in 1..Len(rows) |-> [c \in 1..Len(rows[r]) |-> CleanCell(rows[r][c])]]

\* the rows of one table: rows without cells are skipped
RECURSIVE ExtractRows(_)
ExtractRows(rows) ==
  IF rows = <<>> THEN <<>>
  ELSE LET cols == Head(rows)
       IN  (IF cols # <<>> THEN << [c \in 1..Len(cols) |-> CleanCell(cols[c])] >> ELSE <<>>)
             \o ExtractRows(Tail(rows))

RECURSIVE ExtractTables(_)
ExtractTables(tables) ==
  IF tables = <<>> THEN <<>>
  ELSE LET table_rows == ExtractRows(Head(tables))
       IN  (IF table_rows # <<>> THEN <<table_rows>> ELSE <<>>)
             \o ExtractTables(Tail(tables))

\* extract_table_data(soup)
extract_table_data(soup) == ExtractTables(soup.tables)

\* extract_effective_date(soup): clean_date of the first date a pattern
\* captures in the page, None when no pattern matches
extract_effective_date(soup) == clean_date(soup.effective)

(***************************************************************************)
(* What a fetcher hands back: a dict, None, or an exception that escapes.  *)
(* html is kept as a tag naming the function that built the fragment and   *)
(* what the fragment shows; every fragment is a non-empty string.          *)
(***************************************************************************)
\* a fragment: who wrote it, which of its fragments it is, the state it names,
\* and the names it lists
Html(origin, kind, state) ==
  [origin |-> origin, kind |-> kind, state |-> state, listing |-> <<>>]

NoHtml == Html("none", "none", NoneStr)

Dict(html, effective_date, tables_data, state, a) ==
  [kind |-> "dict", html |-> html, effective_date |-> effective_date,
   tables_data |-> tables_data, state |-> state, act_type |-> a, exc |-> "none"]

ReturnNone ==
  [kind |-> "None", html |-> NoHtml, effective_date |-> NoneStr,
   tables_data |-> <<>>, state |-> NoneStr, act_type |-> None, exc |-> "none"]

Raises(exc) ==
  [kind |-> "raise", html |-> NoHtml, effective_date |-> NoneStr,
   tables_data |-> <<>>, state |-> NoneStr, act_type |-> None, exc |-> exc]

\* the fragment a page fetcher assembles from soup.find_all("table")
PageKind(soup) == IF soup.tables # <<>> THEN "tables" ELSE "no_table_found"

\* fetch_minimum_wages(state) against the upstream answer up
fetch_minimum_wages(state, up) ==
  LET url == UrlGet(STATE_MINIMUM_WAGE_URLS, state)
  IN  IF url = None THEN ReturnNone
      ELSE IF up.net # "ok"
      THEN Dict(Html("fetch_minimum_wages", "error", state), NoneStr, <<>>, NoneStr, None)
      ELSE Dict(Html("fetch_minimum_wages", PageKind(up.soup), state),
                extract_effective_date(up.soup), extract_table_data(up.soup),
                state, "Minimum_Wages")

\* fetch_holiday_list(state)
fetch_holiday_list(state, up) ==
  LET url == UrlGet(STATE_HOLIDAY_URLS, state)
  IN  IF url = None THEN ReturnNone
      ELSE IF up.net # "ok" THEN ReturnNone
      ELSE Dict(Html("fetch_holiday_list", PageKind(up.soup), state),
                NoneStr, extract_table_data(up.soup), state, "Holiday_List")

\* fetch_working_hours(state)
fetch_working_hours(state, up) ==
  LET url == UrlGet(STATE_WORKING_HOURS_URLS, state)
  IN  IF url = None THEN ReturnNone
      ELSE IF up.net # "ok" THEN ReturnNone
      ELSE Dict(Html("fetch_working_hours", PageKind(up.soup), state),
                extract_effective_date(up.soup), extract_table_data(up.soup),
                state, "Working_Hours")

(***************************************************************************)
(* The Shop & Establishment filter.                                        *)
(***************************************************************************)
AllStates == <<"a","l","l","_","s","t","a","t","e","s">>

\* \w
WordChar(c) == c \in LowerLetters \/ c \in DOMAIN UpperToLower \/ c \in Digits \/ c = "_"

\* set(re.findall(r'\b\w+\b', row_text)): the maximal runs of word characters
RowWords(row_text) ==
  {SubSeq(row_text, i, j) : <<i, j>> \in
     {p \in (1..Len(row_text)) \X (1..Len(row_text)) :
        /\ p[1] <= p[2]
        /\ \A k \in p[1]..p[2] : WordChar(row_text[k])
        /\ (p[1] = 1 \/ ~WordChar(row_text[p[1] - 1]))
        /\ (p[2] = Len(row_text) \/ ~WordChar(row_text[p[2] + 1]))}}

\* ' '.join(str(cell).lower() for cell in row)
RowText(row) == JoinSpace([c \in 1..Len(row) |-> Lower(row[c])])

\* the tests one variation goes through against one row
VariationMatches(variation, row_text) ==
  LET variation_lower == Lower(variation)
  IN  \/ variation_lower \in RowWords(row_text)
      \/ Contains(<<" ">> \o variation_lower \o <<" ">>, <<" ">> \o row_text \o <<" ">>)
      \/ variation_lower = Strip(row_text)
      \/ (Contains(<<" ">>, variation_lower) /\ Contains(variation_lower, row_text))

\* a data row is kept when some variation matches it (the loop stops at the
\* first one, so the row is appended once)
RowMatches(row, exact_state_variations) ==
  \E v \in 1..Len(exact_state_variations) :
    VariationMatches(exact_state_variations[v], RowText(row))

\* filtered_rows of one table: the header, then the matching rows in order
FilterRows(table, exact_state_variations) ==
  <<table[1]>> \o SelectSeq(Tail(table), LAMBDA row : RowMatches(row, exact_state_variations))

\* state_found and len(filtered_rows) > 1
TableKept(table, exact_state_variations) ==
  /\ \E r \in 2..Len(table) : RowMatches(table[r], exact_state_variations)
  /\ Len(FilterRows(table, exact_state_variations)) > 1

RECURSIVE FilterTables(_, _)
FilterTables(tables_data, exact_state_variations) ==
  IF tables_data = <<>> THEN <<>>
  ELSE (IF TableKept(Head(tables_data), exact_state_variations)
        THEN <<FilterRows(Head(tables_data), exact_state_variations)>>
        ELSE <<>>)
         \o FilterTables(Tail(tables_data), exact_state_variations)

\* the code points of the characters of the state names, in ascending order
CodePointOrder ==
  <<" ","a","b","c","d","e","f","g","h","i","j","k","l","m",
    "n","o","p","q","r","s","t","u","v","w","x","y","z">>

CodePointRank(c) == CHOOSE i \in 1..Len(CodePointOrder) : CodePointOrder[i] = c

\* Python's  x < y  on strings
RECURSIVE StrLess(_, _)
StrLess(x, y) ==
  IF y = <<>> THEN FALSE
  ELSE IF x = <<>> THEN TRUE
  ELSE IF Head(x) # Head(y) THEN CodePointRank(Head(x)) < CodePointRank(Head(y))
  ELSE StrLess(Tail(x), Tail(y))

\* sorted(names): each name after the names that are less than it
sorted(names) ==
  [n \in 1..Cardinality(names) |->
     CHOOSE x \in names : Cardinality({y \in names : StrLess(y, x)}) = n - 1]

LowerToUpper(c) ==
  IF c \in LowerLetters
  THEN CHOOSE u \in DOMAIN UpperToLower : UpperToLower[u] = c
  ELSE c

\* str.title() of a lowercase name: the first letter of every word in upper case
Title(s) ==
  [i \in 1..Len(s) |->
     IF i = 1 \/ s[i - 1] \notin LowerLetters THEN LowerToUpper(s[i]) ELSE s[i]]

\* the menu of the all-states answer: s.title() for s in sorted(STATE_VARIATIONS.keys())
SelectAState ==
  LET keys == sorted({STATE_VARIATIONS[i].state : i \in 1..Len(STATE_VARIATIONS)})
  IN  [Html("fetch_shop_establishment", "select_a_state", NoneStr) EXCEPT
         !.listing = [n \in 1..Len(keys) |-> Title(keys[n])]]

\* fetch_shop_establishment(state)
fetch_shop_establishment(state, up) ==
  IF up.net # "ok"
  THEN \* the except branch formats state.title()
       IF state = NoneStr THEN Raises("AttributeError")
       ELSE Dict(Html("fetch_shop_establishment", "error", state), NoneStr, <<>>,
                 state, "Shop_and_Establishment")
  ELSE LET tables_data == extract_table_data(up.soup)
       IN  IF state = NoneStr \/ Lower(state) = AllStates
           THEN Dict(SelectAState, NoneStr,
                     <<>>, <<"A","l","l"," ","S","t","a","t","e","s">>,
                     "Shop_and_Establishment")
           ELSE LET state_lower == Strip(Lower(state))
                    exact_state_variations == VariationsGet(state_lower, <<state_lower>>)
                    filtered_tables == FilterTables(tables_data, exact_state_variations)
                IN  Dict(Html("fetch_shop_establishment",
                              IF filtered_tables = <<>> THEN "no_data_for_state" ELSE "tables",
                              state),
                         NoneStr,
                         IF filtered_tables # <<>> THEN filtered_tables ELSE tables_data,
                         state, "Shop_and_Establishment")

\* the fetcher of a category
Fetcher(a, state, up) ==
  CASE a = "minimum_wages" -> fetch_minimum_wages(state, up)
    [] a = "holiday_list" -> fetch_holiday_list(state, up)
    [] a = "working_hours" -> fetch_working_hours(state, up)
    [] OTHER -> fetch_shop_establishment(state, up)

\* a page without any table
DocNoTables ==
  [tables |-> <<>>,
   effective |-> NoneStr]

\* one table: header [State, Hours] and the single data row [Delhi, 9am-6pm]
DocDelhi ==
  [tables |->
     << << << <<"S","t","a","t","e">>, <<"H","o","u","r","s">> >>,
          << <<"D","e","l","h","i">>, <<"9","a","m","-","6","p","m">> >> >> >>,
   effective |-> <<"2","1","s","t"," ","N","o","v","e","m","b","e","r"," ","2","0","2","5">>]

\* a table with rows of several states, an empty row and an untidy cell; a table holding only an empty row; a table about Goa
DocMixed ==
  [tables |->
     << << << <<"S","t","a","t","e">>, <<"H","o","u","r","s">> >>,
          <<>>,
          << <<"D","e","l","h","i">>, <<"9","a","m","-","6","p","m">> >>,
          << <<"K","e","r","a","l","a">>, <<" ","8","a","m"," "," ","-"," "," ","5","p","m"," ","[","d","l","_","b","t","n","]">> >>,
          << <<"N","e","w"," ","D","e","l","h","i">>, <<"1","0","a","m","-","7","p","m">> >>,
          << <<"T","a","m","i","l"," ","N","a","d","u">>, <<"9","a","m","-","9","p","m">> >> >>,
        << <<>> >>,
        << << <<"S","t","a","t","e">>, <<"R","u","l","e">> >>,
          << <<"G","o","a">>, <<"n","o","n","e">> >> >> >>,
   effective |-> NoneStr]

(***************************************************************************)
(* The messages the resolver is run on: every state name and every         *)
(* variant, bare, inside a question, in front of a keyword of the second   *)
(* pattern, inside a sentence only the third pattern matches, and next to  *)
(* the name of another state.                                              *)
(***************************************************************************)
SeqRange(q) == {q[i] : i \in 1..Len(q)}

StateNames ==
  UNION {{STATE_VARIATIONS[i].state} \cup SeqRange(STATE_VARIATIONS[i].variations) :
           i \in 1..Len(STATE_VARIATIONS)}
    \cup {STATE_MINIMUM_WAGE_URLS[i].state : i \in 1..Len(STATE_MINIMUM_WAGE_URLS)}
    \cup {STATE_HOLIDAY_URLS[i].state : i \in 1..Len(STATE_HOLIDAY_URLS)}
    \cup {STATE_WORKING_HOURS_URLS[i].state : i \in 1..Len(STATE_WORKING_HOURS_URLS)}

PairedNames == {<<"k","e","r","a","l","a">>, <<"d","e","l","h","i">>, <<"g","o","a">>}

Messages ==
  {<<>>, <<"h","e","l","l","o">>}
    \cup StateNames
    \cup {<<"M","i","n","i","m","u","m"," ","W","a","g","e","s"," ","o","f"," ">> \o n \o <<"?">> :
            n \in StateNames}
    \cup {n \o <<" ","s","t","a","t","e">> : n \in StateNames}
    \cup {<<"w","h","a","t"," ","i","s"," ","t","h","e"," ","2","0","2","0"," ","a","c","t"," ","o","f"," ">>
            \o n \o <<" ","2","0","2","4">> : n \in StateNames}
    \cup {k \o <<" ">> \o n : n \in StateNames, k \in PairedNames}

VARIABLES
  message,      \* the text handed to detect_state
  act_type,     \* the category handed to detect_state
  detected,     \* what detect_state returned, NotRun before the call
  fetch_state,  \* the state handed to a fetcher
  fetch_act,    \* the category whose fetcher is called
  upstream,     \* what requests.get does for this request
  fetched,      \* what the fetcher returned, NotFetched before the call
  posted,       \* the message posted to /chat
  ollama,       \* what Ollama does for this request
  response,     \* the reply of chat, NotReplied before it
  pending_downloads,  \* token -> the entry request_download stored
  pending_lock, \* the request holding pending_lock, 0 when free
  utc,          \* the seconds since the start, on the UTC clock
  zone,         \* the seconds the server's local time is ahead of UTC
  pc,           \* where each request is in its handler
  local,        \* the local variables of each request
  answer,       \* the HTTP answer of each request
  stored_at,    \* token -> the utc at which it was stored
  next_token,   \* the next fresh token
  db_pool,      \* the module's db_pool: 0 for None, else the pool constructed n-th
  gs_client,    \* the module's gs_client: 0 for None, else the client constructed n-th
  wpc,          \* where each worker is in its initialiser
  wlocal,       \* the call of each worker and what it returned
  made,         \* how many pools and clients were constructed so far
  failed,       \* whether a construction or its test has failed so far
  enquiry,      \* the enquiry request: its route and its JSON body
  epc,          \* where the enquiry handler is
  sinks,        \* what the handler did to the database, the mail and the sheet
  enq_answer,   \* the HTTP answer of the enquiry handler
  document,     \* the parsed page handed to extract_table_data
  extracted,    \* what extract_table_data returned, NotExtracted before the call
  date_in,      \* the text handed to clean_date
  cleaned,      \* what clean_date returned for date_in, NotCleaned before the call
  recleaned,    \* what clean_date returned for cleaned, NotCleaned before the call
  worksheet,    \* the rows of the worksheet, first row first
  gs_lock,      \* the call holding gs_lock, 0 when free
  spc,          \* where each call of append_to_google_sheet is
  slocal        \* the attempts of each call and what it returned

detectVars == <<message, act_type, detected>>

fetchVars == <<fetch_state, fetch_act, upstream, fetched>>

chatVars == <<posted, ollama, response>>

downloadVars ==
  <<pending_downloads, pending_lock, utc, zone, pc, local, answer, stored_at, next_token>>

clientVars == <<db_pool, gs_client, wpc, wlocal, made, failed>>

enquiryVars == <<enquiry, epc, sinks, enq_answer>>

extractVars == <<document, extracted>>

dateVars == <<date_in, cleaned, recleaned>>

sheetVars == <<worksheet, gs_lock, spc, slocal>>

vars == <<message, act_type, detected, fetch_state, fetch_act, upstream, fetched,
          posted, ollama, response,
          pending_downloads, pending_lock, utc, zone, pc, local, answer, stored_at,
          next_token, db_pool, gs_client, wpc, wlocal, made, failed,
          enquiry, epc, sinks, enq_answer,
          document, extracted, date_in, cleaned, recleaned,
          worksheet, gs_lock, spc, slocal>>

(***************************************************************************)
(* The inputs of the fetchers and the states in which a part of the        *)
(* program is not running.                                                 *)
(***************************************************************************)
NotRun == [state |-> NoneStr, url |-> "not run"]

Documents == {DocNoTables, DocDelhi, DocMixed}

StatusCodes == {200, 404, 500}

\* requests.get raised: there is no response
NetworkFailure == [net |-> "fail", status |-> 0, soup |-> DocNoTables]

Upstreams ==
  {NetworkFailure}
    \cup {[net |-> "ok", status |-> c, soup |-> d] : c \in StatusCodes, d \in Documents}

\* a state name, a name of no state, the all-states sentinel, None
FetchStates ==
  {<<"d","e","l","h","i">>, <<"k","e","r","a","l","a">>, <<"g","o","a">>,
   <<"t","a","m","i","l"," ","n","a","d","u">>,
   <<"p","o","n","d","i","c","h","e","r","r","y">>,
   <<"x","y","z">>, AllStates, NoneStr}

NotFetched ==
  [kind |-> "not fetched", html |-> NoHtml, effective_date |-> NoneStr,
   tables_data |-> <<>>, state |-> NoneStr, act_type |-> None, exc |-> "none"]

IdleDetect ==
  /\ message = <<>>
  /\ act_type = "minimum_wages"
  /\ detected = NotRun

IdleFetch ==
  /\ fetch_state = NoneStr
  /\ fetch_act = "minimum_wages"
  /\ upstream = NetworkFailure
  /\ fetched = NotFetched


\* check_ollama_connection() and get_fast_response(): Ollama is down, gives
\* no usable answer, or answers
OllamaOutcomes == {"down", "no_answer", "answer"}

NotReplied ==
  [status |-> 0, response |-> NoHtml, state |-> NoneStr, act_type |-> None, flag |-> "not replied"]

IdleChat ==
  /\ posted = <<>>
  /\ ollama = "down"
  /\ response = NotReplied

\* the requests of a behaviour
MaxRequests == 3

\* the seconds the wall clock may reach
MaxClock == 601

\* the seconds one step of the wall clock may take
TickSteps == {600, 601}

NoForm == [state |-> NoneStr, actType |-> NoneStr]

Answer(status, error, reached, elapsed) ==
  [status |-> status, error |-> error, reached |-> reached, elapsed |-> elapsed]

NoAnswer == Answer(0, "no answer yet", FALSE, -1)

NoLocal == [op |-> "none", token |-> 0, data |-> NoForm, download_id |-> 0]

\* the requests of a behaviour, each on its own thread
Requests == 1..MaxRequests

IdleDownload ==
  /\ pending_downloads = <<>>
  /\ pending_lock = 0
  /\ utc = 0
  /\ zone = 0
  /\ pc = [c \in Requests |-> "new"]
  /\ local = [c \in Requests |-> NoLocal]
  /\ answer = [c \in Requests |-> NoAnswer]
  /\ stored_at = <<>>
  /\ next_token = 1

\* the workers that call an initialiser, each once
MaxWorkers == 3

Workers == 1..MaxWorkers

NoCall == [op |-> "none", returned |-> -1]

IdleClients ==
  /\ db_pool = 0
  /\ gs_client = 0
  /\ wpc = [w \in Workers |-> "new"]
  /\ wlocal = [w \in Workers |-> NoCall]
  /\ made = [pools |-> 0, clients |-> 0]
  /\ failed = FALSE

\* what an enquiry handler did to its sinks: the inserts tried and committed,
\* the calls of the mail function and the mails handed to SMTP, the calls of
\* append_to_google_sheet, the outcome of each worksheet.append_row of the
\* retry loop, the seconds of each time.sleep, and what the call returned;
\* smtp is what the credentials and the SMTP server are for this request
NoSinks ==
  [db_calls |-> 0, db_rows |-> 0, email_calls |-> 0, emails_sent |-> 0,
   smtp |-> "not asked",
   sheet_calls |-> 0, appends |-> <<>>, waits |-> <<>>, sheet_rows |-> 0,
   sheet_returned |-> "not called"]

EnquiryAnswer(status, success, error) ==
  [status |-> status, success |-> success, error |-> error]

NoEnquiryAnswer == EnquiryAnswer(0, FALSE, "no answer yet")

\* a JSON value of the body: a string, a number, or a key that is not there
JsonStr(text) == [type |-> "str", text |-> text]

JsonInt(digits) == [type |-> "int", text |-> digits]

JsonAbsent == [type |-> "absent", text |-> <<>>]

NoEnquiry ==
  [handler |-> "none", json |-> "null",
   fullName |-> JsonAbsent, email |-> JsonAbsent, contactNumber |-> JsonAbsent]

IdleEnquiry ==
  /\ enquiry = NoEnquiry
  /\ epc = "idle"
  /\ sinks = NoSinks
  /\ enq_answer = NoEnquiryAnswer

\* extract_table_data has not been called
NotExtracted == [called |-> FALSE, tables_data |-> <<>>]

IdleExtract ==
  /\ document = DocNoTables
  /\ extracted = NotExtracted

\* clean_date has not been called
NotCleaned == <<"not cleaned">>

IdleDate ==
  /\ date_in = NoneStr
  /\ cleaned = NotCleaned
  /\ recleaned = NotCleaned

\* the concurrent calls of append_to_google_sheet on one worksheet
MaxCallers == 3

Callers == 1..MaxCallers

\* a call that has not looked at the worksheet yet
NotAppended == [attempt |-> 0, returned |-> "not returned"]

IdleSheet ==
  /\ worksheet = <<>>
  /\ gs_lock = 0
  /\ spc = [c \in Callers |-> "new"]
  /\ slocal = [c \in Callers |-> NotAppended]
(***************************************************************************)
(* The resolver run on one message.                                        *)
(***************************************************************************)
InitDetect ==
  /\ message \in Messages
  /\ act_type \in ActTypes
  /\ detected = NotRun
  /\ IdleFetch
  /\ IdleChat
  /\ IdleDownload
  /\ IdleClients
  /\ IdleEnquiry /\ IdleExtract /\ IdleDate /\ IdleSheet

\* one call of detect_state(message, act_type)
Resolve ==
  /\ detected = NotRun
  /\ detected' = detect_state(message, act_type)
  /\ UNCHANGED <<message, act_type>>
  /\ UNCHANGED fetchVars
  /\ UNCHANGED chatVars
  /\ UNCHANGED <<downloadVars, clientVars, enquiryVars, extractVars, dateVars, sheetVars>>

NextDetect == Resolve

SpecDetect == InitDetect /\ [][NextDetect]_vars

\* the keys detect_state tries by name in a category
CategoryKeys(a) ==
  CASE a = "minimum_wages" ->
         {STATE_MINIMUM_WAGE_URLS[i].state : i \in 1..Len(STATE_MINIMUM_WAGE_URLS)}
    [] a = "holiday_list" ->
         {STATE_HOLIDAY_URLS[i].state : i \in 1..Len(STATE_HOLIDAY_URLS)}
    [] a = "working_hours" ->
         {STATE_WORKING_HOURS_URLS[i].state : i \in 1..Len(STATE_WORKING_HOURS_URLS)}
    [] OTHER -> {STATE_VARIATIONS[i].state : i \in 1..Len(STATE_VARIATIONS)}

\* C9: in every category, when the lowercased message literally contains a
\* state name of the category, the state detect_state returns is a state name
\* literally contained in the message, not one picked through a variant.
C9_DirectBeforeVariant ==
  (/\ detected # NotRun
   /\ \E k \in CategoryKeys(act_type) : Contains(k, Lower(message)))
    => /\ detected.state \in CategoryKeys(act_type)
       /\ Contains(detected.state, Lower(message))

\* C10: for every state s, every registered variant v of s and every
\* category, detect_state(v, category) returns s.
C10_VariantResolvesToItsState ==
  \A i \in 1..Len(STATE_VARIATIONS) :
    (/\ detected # NotRun
     /\ message \in SeqRange(STATE_VARIATIONS[i].variations))
      => detected.state = STATE_VARIATIONS[i].state

\* C11: detect_state on the empty message returns (None, None) in each of the
\* four categories.
C11_EmptyMessageResolvesToNone ==
  (detected # NotRun /\ message = <<>>) => detected = [state |-> NoneStr, url |-> None]

\* detect_state has run on the empty message
C11_Witness == detected # NotRun /\ message = <<>> /\ act_type = "shop_establishment"

\* C29: detect_state returns a consistent pair: the state is None exactly
\* when the URL is None, and a returned state is a key of the URL map of the
\* category (of STATE_VARIATIONS for shop_establishment).
C29_ConsistentPair ==
  detected # NotRun
    => /\ (detected.state = NoneStr) <=> (detected.url = None)
       /\ detected.state # NoneStr => detected.state \in CategoryKeys(act_type)

\* detect_state without the regular expressions and without any check
\* against the extracted phrase: extracted_state stays None
detect_state_no_extraction(msg, act) ==
  CASE act = "minimum_wages" -> DetectMinimumWages(Lower(msg), NoneStr)
    [] act = "holiday_list" -> DetectByUrlMap(STATE_HOLIDAY_URLS, Lower(msg), NoneStr)
    [] act = "working_hours" -> DetectByUrlMap(STATE_WORKING_HOURS_URLS, Lower(msg), NoneStr)
    [] act = "shop_establishment" -> DetectShopEstablishment(Lower(msg), NoneStr)
    [] OTHER -> NoState

\* C30: the extraction never changes the result: detect_state returns the
\* pair that detect_state without the extraction returns, for every message
\* and category.
C30_ExtractionIsRedundant ==
  detected # NotRun => detected = detect_state_no_extraction(message, act_type)

\* a phrase was extracted, and the state returned is named in that phrase
C30_Witness ==
  /\ detected # NotRun
  /\ Truthy(ExtractState(Lower(message)))
  /\ detected.state # NoneStr
  /\ Contains(detected.state, ExtractState(Lower(message)))
(***************************************************************************)
(* One call of a fetcher against one upstream answer.                      *)
(***************************************************************************)
InitFetch ==
  /\ fetch_state \in FetchStates
  /\ fetch_act \in ActTypes
  /\ upstream \in Upstreams
  /\ fetched = NotFetched
  /\ IdleDetect
  /\ IdleChat
  /\ IdleDownload
  /\ IdleClients
  /\ IdleEnquiry /\ IdleExtract /\ IdleDate /\ IdleSheet

\* one call of the category's fetcher
Fetch ==
  /\ fetched = NotFetched
  /\ fetched' = Fetcher(fetch_act, fetch_state, upstream)
  /\ UNCHANGED <<fetch_state, fetch_act, upstream>>
  /\ UNCHANGED detectVars
  /\ UNCHANGED chatVars
  /\ UNCHANGED <<downloadVars, clientVars, enquiryVars, extractVars, dateVars, sheetVars>>

NextFetch == Fetch

SpecFetch == InitFetch /\ [][NextFetch]_vars

\* a state a Shop & Establishment query can be filtered for
IsStateKey(state) == \E i \in 1..Len(STATE_VARIATIONS) : STATE_VARIATIONS[i].state = state

\* the data rows of a scraped table that match the requested state
MatchingRows(table, state) ==
  {r \in 2..Len(table) : RowMatches(table[r], VariationsGet(state, <<state>>))}

\* C4: the Shop & Establishment fetch for a state returns only tables with at
\* least one data row matching the state: no table at all when no data row of
\* any scraped table matches, and otherwise, per table with a match, the
\* header row followed by exactly the matching rows in source order.
C4_ShopReturnsOnlyMatchingTables ==
  (/\ fetched # NotFetched
   /\ fetch_act = "shop_establishment"
   /\ IsStateKey(fetch_state)
   /\ upstream.net = "ok" /\ upstream.status = 200)
    => LET scraped == extract_table_data(upstream.soup)
           hits    == {t \in 1..Len(scraped) : MatchingRows(scraped[t], fetch_state) # {}}
       IN  /\ fetched.kind = "dict"
           /\ Len(fetched.tables_data) = Cardinality(hits)
           /\ \A n \in 1..Len(fetched.tables_data) :
                \E t \in hits :
                  /\ Cardinality({u \in hits : u <= t}) = n
                  /\ fetched.tables_data[n][1] = scraped[t][1]
                  /\ Len(fetched.tables_data[n]) = 1 + Cardinality(MatchingRows(scraped[t], fetch_state))
                  /\ \A r \in MatchingRows(scraped[t], fetch_state) :
                       fetched.tables_data[n][1 + Cardinality({q \in MatchingRows(scraped[t], fetch_state) : q <= r})]
                         = scraped[t][r]

\* C6: no fetcher lets a failure of the upstream GET escape: whatever the
\* input state, the call returns None or a result with empty tables and an
\* error fragment, and raises nothing.
C6_FetchersNeverRaise ==
  (fetched # NotFetched /\ upstream.net = "fail")
    => /\ fetched.kind # "raise"
       /\ \/ fetched.kind = "None"
          \/ (fetched.kind = "dict" /\ fetched.tables_data = <<>>
                /\ fetched.html.kind = "error")

\* C7: an upstream response with a non-200 status is handled like a network
\* failure: the result is None or has empty tables, whatever the body holds.
C7_Non200GivesNoTables ==
  (fetched # NotFetched /\ upstream.net = "ok" /\ upstream.status # 200)
    => \/ fetched.kind = "None"
       \/ (fetched.kind = "dict" /\ fetched.tables_data = <<>>)


\* C12: fetch_shop_establishment called with the all-states sentinel always
\* returns the sorted listing of every state of the variants table with an
\* empty list of tables, whether the upstream fetch succeeds, fails, or
\* returns any table content.
C12_AllStatesIgnoresThePage ==
  (fetched # NotFetched /\ fetch_act = "shop_establishment" /\ fetch_state = AllStates)
    => /\ fetched.kind = "dict"
       /\ fetched.tables_data = <<>>
       /\ fetched.html.kind = "select_a_state"
       /\ Len(fetched.html.listing) = Len(STATE_VARIATIONS)
       /\ \A i \in 1..Len(STATE_VARIATIONS) :
            \E n \in 1..Len(fetched.html.listing) :
              fetched.html.listing[n] = Title(STATE_VARIATIONS[i].state)
       /\ \A n \in 1..(Len(fetched.html.listing) - 1) :
            StrLess(Lower(fetched.html.listing[n]), Lower(fetched.html.listing[n + 1]))
\* labour_code_keywords of chat
labour_code_keywords ==
  << <<"n","e","w"," ","l","a","b","o","u","r"," ","c","o","d","e","s">>,
     <<"n","e","w"," ","l","a","b","o","r"," ","c","o","d","e","s">>,
     <<"l","a","b","o","u","r"," ","c","o","d","e","s">>,
     <<"l","a","b","o","r"," ","c","o","d","e","s">>,
     <<"n","e","w"," ","l","a","b","o","u","r"," ","l","a","w","s">>,
     <<"n","e","w"," ","l","a","b","o","r"," ","l","a","w","s">>,
     <<"c","o","d","e"," ","o","n"," ","s","o","c","i","a","l"," ","s","e","c","u","r","i","t","y">>,
     <<"s","o","c","i","a","l"," ","s","e","c","u","r","i","t","y"," ","c","o","d","e">>,
     <<"i","n","d","u","s","t","r","i","a","l"," ","r","e","l","a","t","i","o","n","s"," ","c","o","d","e">>,
     <<"c","o","d","e"," ","o","n"," ","w","a","g","e","s">>,
     <<"w","a","g","e","s"," ","c","o","d","e">>,
     <<"o","c","c","u","p","a","t","i","o","n","a","l"," ","s","a","f","e","t","y"," ","c","o","d","e">>,
     <<"o","s","h"," ","c","o","d","e">>,
     <<"l","a","b","o","u","r"," ","c","o","d","e"," ","2","0","2","0">> >>

\* NEW_LABOUR_CODES: each code with its keywords, in insertion order
NEW_LABOUR_CODES ==
  << [code |-> <<"s","o","c","i","a","l","_","s","e","c","u","r","i","t","y">>,
      keywords |-> << <<"s","o","c","i","a","l"," ","s","e","c","u","r","i","t","y">>,
                      <<"s","o","c","i","a","l"," ","s","e","c","u","r","i","t","y"," ","c","o","d","e">>,
                      <<"c","o","d","e"," ","o","n"," ","s","o","c","i","a","l"," ","s","e","c","u","r","i","t","y">>,
                      <<"s","o","c","i","a","l"," ","s","e","c","u","r","i","t","y"," ","2","0","2","0">> >>],
     [code |-> <<"i","n","d","u","s","t","r","i","a","l","_","r","e","l","a","t","i","o","n","s">>,
      keywords |-> << <<"i","n","d","u","s","t","r","i","a","l"," ","r","e","l","a","t","i","o","n","s">>,
                      <<"i","n","d","u","s","t","r","i","a","l"," ","r","e","l","a","t","i","o","n","s"," ","c","o","d","e">>,
                      <<"i","r"," ","c","o","d","e">>,
                      <<"i","n","d","u","s","t","r","i","a","l"," ","r","e","l","a","t","i","o","n","s"," ","2","0","2","0">> >>],
     [code |-> <<"c","o","d","e","_","o","n","_","w","a","g","e","s">>,
      keywords |-> << <<"c","o","d","e"," ","o","n"," ","w","a","g","e","s">>,
                      <<"w","a","g","e","s"," ","c","o","d","e">>,
                      <<"w","a","g","e"," ","c","o","d","e">>,
                      <<"w","a","g","e","s"," ","2","0","1","9">> >>],
     [code |-> <<"o","c","c","u","p","a","t","i","o","n","a","l","_","s","a","f","e","t","y">>,
      keywords |-> << <<"o","c","c","u","p","a","t","i","o","n","a","l"," ","s","a","f","e","t","y">>,
                      <<"s","a","f","e","t","y"," ","c","o","d","e">>,
                      <<"h","e","a","l","t","h"," ","a","n","d"," ","s","a","f","e","t","y">>,
                      <<"w","o","r","k","i","n","g"," ","c","o","n","d","i","t","i","o","n","s">>,
                      <<"o","s","h"," ","c","o","d","e">> >>] >>

\* service_keywords of chat
service_keywords ==
  << <<"s","e","r","v","i","c","e","s"," ","o","f"," ","s","l","c","i">>,
     <<"w","h","a","t"," ","d","o","e","s"," ","s","l","c","i"," ","d","o">>,
     <<"y","o","u","r"," ","s","e","r","v","i","c","e","s">>,
     <<"s","e","r","v","i","c","e","s"," ","y","o","u"," ","o","f","f","e","r">>,
     <<"l","i","s","t"," ","o","f"," ","s","e","r","v","i","c","e","s">>,
     <<"s","l","c","i"," ","s","e","r","v","i","c","e","s">> >>

\* KEYWORDS: intent key -> phrases, in insertion order
KEYWORDS ==
  << [key |-> <<"w","h","a","t"," ","i","s"," ","s","l","c","i">>,
      keywords |-> << <<"w","h","a","t"," ","i","s"," ","s","l","c","i">>,
                      <<"a","b","o","u","t"," ","s","l","c","i">>,
                      <<"t","e","l","l"," ","m","e"," ","a","b","o","u","t"," ","s","l","c","i">>,
                      <<"s","l","c","i"," ","m","e","a","n","i","n","g">>,
                      <<"w","h","o"," ","i","s"," ","s","l","c","i">> >>],
     [key |-> <<"f","u","l","l"," ","f","o","r","m"," ","o","f"," ","s","l","c","i">>,
      keywords |-> << <<"f","u","l","l"," ","f","o","r","m">>,
                      <<"s","t","a","n","d","s"," ","f","o","r">>,
                      <<"s","l","c","i"," ","f","u","l","l"," ","f","o","r","m">>,
                      <<"s","l","c","i"," ","e","x","p","a","n","s","i","o","n">> >>],
     [key |-> <<"c","o","n","t","a","c","t"," ","n","u","m","b","e","r">>,
      keywords |-> << <<"c","o","n","t","a","c","t"," ","n","u","m","b","e","r">>,
                      <<"p","h","o","n","e"," ","n","u","m","b","e","r">>,
                      <<"c","a","l","l">>,
                      <<"h","e","l","p","l","i","n","e">>,
                      <<"m","o","b","i","l","e">>,
                      <<"t","e","l","e","p","h","o","n","e">>,
                      <<"w","h","a","t","s","a","p","p">> >>],
     [key |-> <<"e","m","a","i","l">>,
      keywords |-> << <<"e","m","a","i","l">>,
                      <<"m","a","i","l">>,
                      <<"e","m","a","i","l"," ","i","d">>,
                      <<"e","m","a","i","l"," ","a","d","d","r","e","s","s">>,
                      <<"w","r","i","t","e"," ","t","o"," ","u","s">> >>],
     [key |-> <<"a","d","d","r","e","s","s">>,
      keywords |-> << <<"a","d","d","r","e","s","s">>,
                      <<"l","o","c","a","t","i","o","n">>,
                      <<"o","f","f","i","c","e">>,
                      <<"h","e","a","d","q","u","a","r","t","e","r">>,
                      <<"n","o","i","d","a">>,
                      <<"d","e","l","h","i"," ","o","f","f","i","c","e">>,
                      <<"w","h","e","r","e"," ","a","r","e"," ","y","o","u">> >>],
     [key |-> <<"t","i","m","i","n","g">>,
      keywords |-> << <<"t","i","m","i","n","g">>,
                      <<"o","f","f","i","c","e"," ","h","o","u","r","s">>,
                      <<"w","o","r","k","i","n","g"," ","h","o","u","r","s">>,
                      <<"o","p","e","n"," ","t","i","m","e">>,
                      <<"c","l","o","s","e"," ","t","i","m","e">>,
                      <<"w","h","a","t"," ","t","i","m","e">>,
                      <<"b","u","s","i","n","e","s","s"," ","h","o","u","r","s">>,
                      <<"m","o","n","d","a","y"," ","t","o"," ","s","a","t","u","r","d","a","y">>,
                      <<"9"," ","t","o"," ","6">> >>],
     [key |-> <<"w","h","y"," ","s","l","c","i">>,
      keywords |-> << <<"w","h","y"," ","s","l","c","i">>,
                      <<"w","h","y"," ","c","h","o","o","s","e"," ","s","l","c","i">>,
                      <<"w","h","y"," ","d","o","e","s"," ","s","l","c","i"," ","w","o","r","k">>,
                      <<"w","h","y"," ","w","o","r","k"," ","w","i","t","h"," ","s","l","c","i">>,
                      <<"s","l","c","i"," ","a","d","v","a","n","t","a","g","e">>,
                      <<"s","l","c","i"," ","b","e","n","e","f","i","t","s">>,
                      <<"w","h","y"," ","t","r","u","s","t"," ","s","l","c","i">>,
                      <<"s","l","c","i"," ","e","x","p","e","r","i","e","n","c","e">>,
                      <<"s","l","c","i"," ","e","x","p","e","r","t","i","s","e">> >>],
     [key |-> <<"m","i","n","i","m","u","m"," ","w","a","g","e","s">>,
      keywords |-> << <<"m","i","n","i","m","u","m"," ","w","a","g","e">>,
                      <<"w","a","g","e","s">>,
                      <<"w","a","g","e"," ","r","a","t","e">>,
                      <<"s","a","l","a","r","y">>,
                      <<"m","i","n","i","m","u","m"," ","s","a","l","a","r","y">> >>],
     [key |-> <<"e","p","f">>,
      keywords |-> << <<"e","p","f">>,
                      <<"p","r","o","v","i","d","e","n","t"," ","f","u","n","d">>,
                      <<"p","f">>,
                      <<"p","e","n","s","i","o","n">>,
                      <<"e","m","p","l","o","y","e","e"," ","p","r","o","v","i","d","e","n","t"," ","f","u","n","d">> >>],
     [key |-> <<"e","s","i">>,
      keywords |-> << <<"e","s","i">>,
                      <<"i","n","s","u","r","a","n","c","e">>,
                      <<"e","m","p","l","o","y","e","e"," ","s","t","a","t","e">>,
                      <<"m","e","d","i","c","a","l">>,
                      <<"e","s","i"," ","s","c","h","e","m","e">> >>],
     [key |-> <<"g","r","a","t","u","i","t","y">>,
      keywords |-> << <<"g","r","a","t","u","i","t","y">>,
                      <<"g","r","a","t","u","i","t","y"," ","a","m","o","u","n","t">>,
                      <<"g","r","a","t","u","i","t","y"," ","c","a","l","c","u","l","a","t","i","o","n">> >>],
     [key |-> <<"b","o","n","u","s">>,
      keywords |-> << <<"b","o","n","u","s">>,
                      <<"a","n","n","u","a","l"," ","b","o","n","u","s">>,
                      <<"b","o","n","u","s"," ","a","c","t">> >>],
     [key |-> <<"w","o","r","k","i","n","g"," ","h","o","u","r","s">>,
      keywords |-> << <<"w","o","r","k","i","n","g"," ","h","o","u","r","s">>,
                      <<"w","o","r","k"," ","h","o","u","r","s">>,
                      <<"d","a","i","l","y"," ","h","o","u","r","s">>,
                      <<"s","h","i","f","t"," ","t","i","m","i","n","g">> >>],
     [key |-> <<"h","o","l","i","d","a","y"," ","l","i","s","t">>,
      keywords |-> << <<"h","o","l","i","d","a","y">>,
                      <<"h","o","l","i","d","a","y"," ","l","i","s","t">>,
                      <<"p","u","b","l","i","c"," ","h","o","l","i","d","a","y">>,
                      <<"n","a","t","i","o","n","a","l"," ","h","o","l","i","d","a","y">>,
                      <<"b","a","n","k"," ","h","o","l","i","d","a","y">>,
                      <<"l","e","a","v","e","s">> >>],
     [key |-> <<"s","h","o","p"," ","e","s","t","a","b","l","i","s","h","m","e","n","t">>,
      keywords |-> << <<"s","h","o","p"," ","a","n","d"," ","e","s","t","a","b","l","i","s","h","m","e","n","t">>,
                      <<"s","h","o","p"," ","e","s","t","a","b","l","i","s","h","m","e","n","t"," ","a","c","t">>,
                      <<"s","e","a"," ","a","c","t">>,
                      <<"c","o","m","m","e","r","c","i","a","l"," ","e","s","t","a","b","l","i","s","h","m","e","n","t">>,
                      <<"s","h","o","p"," ","l","i","c","e","n","s","e">> >>],
     [key |-> <<"p","r","i","c","i","n","g">>,
      keywords |-> << <<"p","r","i","c","i","n","g">>,
                      <<"p","r","i","c","e">>,
                      <<"c","o","s","t">>,
                      <<"f","e","e">>,
                      <<"f","e","e","s">>,
                      <<"c","h","a","r","g","e","s">>,
                      <<"h","o","w"," ","m","u","c","h">>,
                      <<"q","u","o","t","a","t","i","o","n">>,
                      <<"q","u","o","t","e">>,
                      <<"p","a","c","k","a","g","e">>,
                      <<"p","l","a","n","s">>,
                      <<"s","u","b","s","c","r","i","p","t","i","o","n">> >>],
     [key |-> <<"f","e","e","s">>,
      keywords |-> << <<"f","e","e","s">>,
                      <<"f","e","e"," ","s","t","r","u","c","t","u","r","e">>,
                      <<"s","e","r","v","i","c","e"," ","f","e","e","s">>,
                      <<"c","o","n","s","u","l","t","i","n","g"," ","f","e","e","s">>,
                      <<"c","h","a","r","g","e","s">>,
                      <<"p","r","o","f","e","s","s","i","o","n","a","l"," ","f","e","e","s">> >>],
     [key |-> <<"c","o","s","t">>,
      keywords |-> << <<"c","o","s","t">>,
                      <<"c","o","s","t"," ","o","f"," ","s","e","r","v","i","c","e","s">>,
                      <<"h","o","w"," ","m","u","c","h"," ","d","o","e","s"," ","i","t"," ","c","o","s","t">>,
                      <<"p","r","i","c","i","n","g"," ","d","e","t","a","i","l","s">>,
                      <<"s","e","r","v","i","c","e"," ","c","o","s","t">> >>],
     [key |-> <<"w","e","b","s","i","t","e">>,
      keywords |-> << <<"w","e","b","s","i","t","e">>,
                      <<"s","i","t","e">>,
                      <<"w","e","b">>,
                      <<"u","r","l">>,
                      <<"o","n","l","i","n","e">>,
                      <<"p","o","r","t","a","l">> >>],
     [key |-> <<"n","e","w"," ","l","a","b","o","u","r"," ","c","o","d","e","s">>,
      keywords |-> << <<"n","e","w"," ","l","a","b","o","u","r"," ","c","o","d","e","s">>,
                      <<"l","a","b","o","u","r"," ","c","o","d","e","s">>,
                      <<"n","e","w"," ","l","a","b","o","r"," ","c","o","d","e","s">>,
                      <<"l","a","b","o","r"," ","c","o","d","e","s">>,
                      <<"n","e","w"," ","l","a","b","o","u","r"," ","l","a","w","s">>,
                      <<"n","e","w"," ","l","a","b","o","r"," ","l","a","w","s">>,
                      <<"l","a","b","o","u","r"," ","c","o","d","e">>,
                      <<"l","a","b","o","r"," ","c","o","d","e">>,
                      <<"c","o","d","e"," ","o","n"," ","s","o","c","i","a","l"," ","s","e","c","u","r","i","t","y">>,
                      <<"s","o","c","i","a","l"," ","s","e","c","u","r","i","t","y"," ","c","o","d","e">>,
                      <<"i","n","d","u","s","t","r","i","a","l"," ","r","e","l","a","t","i","o","n","s"," ","c","o","d","e">>,
                      <<"c","o","d","e"," ","o","n"," ","w","a","g","e","s">>,
                      <<"o","c","c","u","p","a","t","i","o","n","a","l"," ","s","a","f","e","t","y"," ","c","o","d","e">> >>] >>

\* the keys of RESPONSES
RESPONSES ==
  {<<"w","h","a","t"," ","i","s"," ","s","l","c","i">>,
   <<"f","u","l","l"," ","f","o","r","m"," ","o","f"," ","s","l","c","i">>,
   <<"c","o","n","t","a","c","t"," ","n","u","m","b","e","r">>,
   <<"e","m","a","i","l">>,
   <<"a","d","d","r","e","s","s">>,
   <<"t","i","m","i","n","g">>,
   <<"w","h","y"," ","s","l","c","i">>,
   <<"m","i","n","i","m","u","m"," ","w","a","g","e","s">>,
   <<"w","o","r","k","i","n","g"," ","h","o","u","r","s">>,
   <<"h","o","l","i","d","a","y"," ","l","i","s","t">>,
   <<"s","h","o","p"," ","e","s","t","a","b","l","i","s","h","m","e","n","t">>,
   <<"e","p","f">>,
   <<"e","s","i">>,
   <<"g","r","a","t","u","i","t","y">>,
   <<"b","o","n","u","s">>,
   <<"p","r","i","c","i","n","g">>,
   <<"f","e","e","s">>,
   <<"c","o","s","t">>,
   <<"w","e","b","s","i","t","e">>,
   <<"n","e","w"," ","l","a","b","o","u","r"," ","c","o","d","e","s">>}

(***************************************************************************)
(* chat(): the dispatcher of POST /chat.                                   *)
(***************************************************************************)
\* any(phrase in user_message for phrase in phrases)
AnyIn(phrases, user_message) ==
  \E i \in 1..Len(phrases) : Contains(phrases[i], user_message)

\* a fragment is a non-empty string unless it is absent
HtmlTruthy(html) == html # NoHtml

\* jsonify(...) of a chat answer: the fragment and the keys that go with it
Reply(html, state, a, flag) ==
  [status |-> 200, response |-> html, state |-> state, act_type |-> a, flag |-> flag]

\* an exception that leaves the handler is answered by Flask with a 500
ServerError ==
  [status |-> 500, response |-> NoHtml, state |-> NoneStr, act_type |-> None, flag |-> "none"]

\* the first code of NEW_LABOUR_CODES one of whose keywords is in the message
specific_code(user_message) ==
  LET hits == {i \in 1..Len(NEW_LABOUR_CODES) :
                 AnyIn(NEW_LABOUR_CODES[i].keywords, user_message)}
  IN  IF hits = {} THEN NoneStr ELSE NEW_LABOUR_CODES[SetMin(hits)].code

\* the last key of KEYWORDS one of whose keywords is in the message
KeywordKey_last(user_message) ==
  LET hits == {i \in 1..Len(KEYWORDS) : AnyIn(KEYWORDS[i].keywords, user_message)}
  IN  IF hits = {} THEN NoneStr ELSE KEYWORDS[SetMax(hits)].key

\* the first key of KEYWORDS one of whose keywords is in the message
KeywordKey(user_message) ==
  LET hits == {i \in 1..Len(KEYWORDS) : AnyIn(KEYWORDS[i].keywords, user_message)}
  IN  IF hits = {} THEN NoneStr ELSE KEYWORDS[SetMin(hits)].key

\* RESPONSES.get(key, "")
ResponsesGet(key) ==
  IF key \in RESPONSES THEN Html("RESPONSES", "text", key) ELSE Html("RESPONSES", "", key)

ShopTriggers ==
  << <<"s","h","o","p"," ","a","n","d"," ","e","s","t","a","b","l","i","s","h","m","e","n","t">>,
     <<"s","h","o","p"," ","e","s","t","a","b","l","i","s","h","m","e","n","t">>,
     <<"s","h","o","p"," ","&"," ","e","s","t","a","b","l","i","s","h","m","e","n","t">>,
     <<"s","e","a"," ","a","c","t">> >>

AllStatesTriggers ==
  << <<"a","l","l"," ","s","t","a","t","e","s">>, <<"l","i","s","t"," ","a","l","l">> >>

HolidayTriggers == << <<"h","o","l","i","d","a","y">> >>

WorkingHoursTriggers ==
  << <<"w","o","r","k","i","n","g"," ","h","o","u","r","s">>,
     <<"w","o","r","k","i","n","g"," ","h","o","u","r">> >>

\* a minimum-wages bucket that is entered on "wage rate" only
MinimumWagesTriggers_other == << <<"w","a","g","e"," ","r","a","t","e">> >>

MinimumWagesTriggers ==
  << <<"m","i","n","i","m","u","m"," ","w","a","g","e">>,
     <<"m","i","n","i","m","u","m"," ","w","a","g","e","s">> >>

\* the state key "All States" the all-states answer carries
AllStatesLabel == <<"A","l","l"," ","S","t","a","t","e","s">>

\* the category whose bucket of chat takes the message, "none" for no bucket
ChatCategory(user_message) ==
  IF AnyIn(ShopTriggers, user_message) THEN "shop_establishment"
  ELSE IF AnyIn(HolidayTriggers, user_message) THEN "holiday_list"
  ELSE IF AnyIn(WorkingHoursTriggers, user_message) THEN "working_hours"
  ELSE IF AnyIn(MinimumWagesTriggers, user_message) THEN "minimum_wages"
  ELSE "none"

\* a reply of chat together with the fetcher's result it was made from; the
\* fetcher called and the state handed to it are filled in by Called
Outcome(reply, data) == [reply |-> reply, data |-> data, fetcher |-> None, state |-> NoneStr]

\* the outcome of a bucket that called the fetcher of category a for state
Called(outcome, a, state) == [outcome EXCEPT !.fetcher = a, !.state = state]

\* a category bucket once the fetcher has returned data for the detected state
BucketReply(a, state, data) ==
  IF data.kind = "raise" THEN Outcome(ServerError, data)
  ELSE IF data.kind = "dict" /\ HtmlTruthy(data.html)
  THEN Outcome(Reply(data.html, state, a, "none"), data)
  ELSE Outcome(Reply(Html(a, "no_data_found", state), NoneStr, None, "none"), data)

\* the all-states answer of the Shop & Establishment bucket
AllStatesReply(data) ==
  IF data.kind = "raise" THEN Outcome(ServerError, data)
  ELSE Outcome(Reply(data.html, AllStatesLabel, "shop_establishment", "none"), data)

\* a category bucket of chat once detect_state has returned state
Bucket(user_message, a, state, up) ==
  IF Truthy(state) THEN Called(BucketReply(a, state, Fetcher(a, state, up)), a, state)
  ELSE IF a = "shop_establishment" /\ AnyIn(AllStatesTriggers, user_message)
  THEN Called(AllStatesReply(fetch_shop_establishment(AllStates, up)), a, AllStates)
  ELSE Outcome(Reply(Html(a, "please_specify_a_state", NoneStr), NoneStr, None, "none"),
               NotFetched)

\* the reply for the first key of KEYWORDS a keyword of which is in the message
KeywordReply(key) ==
  IF key \in {<<"p","r","i","c","i","n","g">>, <<"f","e","e","s">>, <<"c","o","s","t">>}
  THEN Reply(ResponsesGet(key), NoneStr, None, "show_fee_button")
  ELSE IF key \in {<<"e","p","f">>, <<"e","s","i">>}
  THEN Reply(Html("chat", "enriched", key), NoneStr, None, "none")
  ELSE Reply(ResponsesGet(key), NoneStr, None, "none")

\* the reply of the labour-codes bucket for the code the message names, if any
LabourCodeReply(code) ==
  IF Truthy(code)
  THEN Reply(Html("chat", "labour_code", code), NoneStr, None, "show_labour_codes")
  ELSE Reply(Html("chat", "labour_code_overview", NoneStr), NoneStr, None, "show_labour_codes")

\* the buckets after the four categories: labour codes, services, KEYWORDS,
\* Ollama, fallback
GeneralReply(user_message, llm) ==
  IF AnyIn(labour_code_keywords, user_message)
  THEN LabourCodeReply(specific_code(user_message))
  ELSE IF AnyIn(service_keywords, user_message)
  THEN Reply(Html("chat", "services", NoneStr), NoneStr, None, "show_services")
  ELSE IF Truthy(KeywordKey(user_message))
  THEN KeywordReply(KeywordKey(user_message))
  ELSE IF llm = "answer"
  THEN Reply(Html("ollama", "answer", NoneStr), NoneStr, None, "none")
  ELSE Reply(Html("chat", "fallback", NoneStr), NoneStr, None, "none")

\* chat after the category test: a is the category of the message
Dispatch(user_message, a, up, llm) ==
  IF user_message = <<>>
  THEN Outcome(Reply(Html("chat", "please_type_a_message", NoneStr), NoneStr, None, "none"),
               NotFetched)
  ELSE IF a # "none"
  THEN Bucket(user_message, a, detect_state(user_message, a).state, up)
  ELSE Outcome(GeneralReply(user_message, llm), NotFetched)

\* request.json.get("message", "").lower().strip()
user_message_of(json_message) == Strip(Lower(json_message))

\* chat() for the posted message json_message, the upstream answer up and the
\* Ollama outcome llm
chat(json_message, up, llm) ==
  Dispatch(user_message_of(json_message), ChatCategory(user_message_of(json_message)), up, llm)

\* str.upper()
Upper(s) == [i \in 1..Len(s) |-> LowerToUpper(s[i])]

\* "minimum wages of <s>" for every key s of the minimum-wages URL map, in
\* lower and in upper case
MinimumWagesOf(state) == <<"m","i","n","i","m","u","m"," ","w","a","g","e","s"," ","o","f"," ">> \o state

MinimumWagesQuestions ==
  UNION {{MinimumWagesOf(STATE_MINIMUM_WAGE_URLS[i].state),
          Upper(MinimumWagesOf(STATE_MINIMUM_WAGE_URLS[i].state))} :
           i \in 1..Len(STATE_MINIMUM_WAGE_URLS)}

\* the other messages posted to /chat
OtherMessages ==
  {<<>>,
   <<" "," "," ">>,
   <<"H","e","l","l","o">>,
   <<"M","i","n","i","m","u","m"," ","W","a","g","e","s"," ","o","f"," ","D","e","l","h","i">>,
   <<"m","i","n","i","m","u","m"," ","w","a","g","e","s"," ","o","f"," ","k","e","r","a","l","a"," ">>,
   <<"m","i","n","i","m","u","m"," ","w","a","g","e"," ","x","y","z">>,
   <<"m","i","n","i","m","u","m"," ","w","a","g","e","s"," ","p","o","n","d","i","c","h","e","r","r","y">>,
   <<"H","o","l","i","d","a","y"," ","l","i","s","t"," ","o","f"," ","G","o","a">>,
   <<"h","o","l","i","d","a","y">>,
   <<"h","o","l","i","d","a","y","s"," ","i","n"," ","t","a","m","i","l"," ","n","a","d","u">>,
   <<"w","o","r","k","i","n","g"," ","h","o","u","r","s"," ","i","n"," ","d","e","l","h","i">>,
   <<"w","o","r","k","i","n","g"," ","h","o","u","r">>,
   <<"w","o","r","k","i","n","g"," ","h","o","u","r","s"," ","m","i","z","o","r","a","m">>,
   <<"S","h","o","p"," ","a","n","d"," ","E","s","t","a","b","l","i","s","h","m","e","n","t"," ","A","c","t"," ","o","f"," ","D","e","l","h","i">>,
   <<"s","e","a"," ","a","c","t"," ","k","e","r","a","l","a">>,
   <<"s","h","o","p"," ","e","s","t","a","b","l","i","s","h","m","e","n","t"," ","a","l","l"," ","s","t","a","t","e","s">>,
   <<"s","h","o","p"," ","&"," ","e","s","t","a","b","l","i","s","h","m","e","n","t"," ","l","i","s","t"," ","a","l","l">>,
   <<"s","h","o","p"," ","e","s","t","a","b","l","i","s","h","m","e","n","t">>,
   <<"n","e","w"," ","l","a","b","o","u","r"," ","c","o","d","e","s">>,
   <<"t","e","l","l"," ","m","e"," ","t","h","e"," ","c","o","d","e"," ","o","n"," ","w","a","g","e","s">>,
   <<"o","s","h"," ","c","o","d","e">>,
   <<"s","e","r","v","i","c","e","s"," ","o","f"," ","s","l","c","i">>,
   <<"p","r","i","c","i","n","g">>,
   <<"w","h","a","t"," ","i","s"," ","e","p","f">>,
   <<"g","r","a","t","u","i","t","y">>,
   <<"w","h","e","r","e"," ","i","s"," ","y","o","u","r"," ","o","f","f","i","c","e">>,
   <<"z","z","z">>,
   <<"f","e","e","s">>,
   <<"E","m","a","i","l"," ","A","d","d","r","e","s","s">>,
   <<"h","o","l","i","d","a","y"," ","w","o","r","k","i","n","g"," ","h","o","u","r","s"," ","o","f"," ","d","e","l","h","i">>,
   <<"s","e","a"," ","a","c","t"," ","m","i","n","i","m","u","m"," ","w","a","g","e","s"," ","k","e","r","a","l","a">>,
   <<"H","E","L","L","O">>}

\* the messages posted to /chat
PostedMessages == MinimumWagesQuestions \cup OtherMessages

InitChat ==
  /\ posted \in PostedMessages
  /\ ollama \in OllamaOutcomes
  /\ response = NotReplied
  /\ upstream \in Upstreams
  /\ fetched = NotFetched
  /\ fetch_state = NoneStr
  /\ fetch_act = "minimum_wages"
  /\ IdleDetect
  /\ IdleDownload
  /\ IdleClients
  /\ IdleEnquiry /\ IdleExtract /\ IdleDate /\ IdleSheet

\* the reply is sent; the fetcher's result is kept for inspection
Replies(outcome) ==
  /\ response' = outcome.reply
  /\ fetched' = outcome.data
  /\ fetch_act' = IF outcome.fetcher = None THEN fetch_act ELSE outcome.fetcher
  /\ fetch_state' = IF outcome.fetcher = None THEN fetch_state ELSE outcome.state

\* one request to /chat, from the posted message to the reply
Chat ==
  /\ response = NotReplied
  /\ Replies(chat(posted, upstream, ollama))
  /\ UNCHANGED <<posted, ollama, upstream>>
  /\ UNCHANGED detectVars
  /\ UNCHANGED <<downloadVars, clientVars, enquiryVars, extractVars, dateVars, sheetVars>>

NextChat == Chat

SpecChat == InitChat /\ [][NextChat]_vars

\* C5: in the chat dispatcher, for each of the four categories, whenever the
\* fetcher called for a detected state returns a result whose tables are
\* empty, the reply is the dispatcher's no-data notice and never the
\* fetcher's fragment presented as data for that state.
C5_EmptyTablesGiveNoDataNotice ==
  (/\ response # NotReplied
   /\ fetched.kind = "dict"
   /\ fetched.tables_data = <<>>
   /\ response.state # AllStatesLabel)
    => /\ response.response.kind = "no_data_found"
       /\ response.response # fetched.html
       /\ response.act_type = None

\* the trigger phrases of the four category buckets, in the order chat tests them
CategoryTriggers ==
  << [a |-> "shop_establishment", phrases |-> ShopTriggers],
     [a |-> "holiday_list", phrases |-> HolidayTriggers],
     [a |-> "working_hours", phrases |-> WorkingHoursTriggers],
     [a |-> "minimum_wages", phrases |-> MinimumWagesTriggers] >>

\* the category bucket a reply comes from, "none" if from no category bucket
ReplyCategory(reply) ==
  CASE reply.response.origin \in {"shop_establishment", "fetch_shop_establishment"} ->
         "shop_establishment"
    [] reply.response.origin \in {"holiday_list", "fetch_holiday_list"} -> "holiday_list"
    [] reply.response.origin \in {"working_hours", "fetch_working_hours"} -> "working_hours"
    [] reply.response.origin \in {"minimum_wages", "fetch_minimum_wages"} -> "minimum_wages"
    [] OTHER -> "none"

\* the reply is the answer of the keyword table for KEYWORDS[i]
ReplyOfKeyword(reply, i) ==
  /\ reply.response.state = KEYWORDS[i].key
  /\ reply.response.origin \in {"RESPONSES", "chat"}
  /\ reply.response.kind \in {"text", "enriched"}

\* C13: chat evaluates its intent buckets in one fixed order and the first
\* match wins: a message with a trigger phrase of a category is answered by
\* the first such category (shop & establishment, holiday, working hours,
\* minimum wages), also when no state is resolved, and never by the keyword
\* table; a message answered by the keyword table is answered for the first
\* key, in insertion order, one of whose keywords it contains.
C13_FirstMatchingBucketWins ==
  response # NotReplied =>
    LET m == user_message_of(posted)
    IN  /\ \A i \in 1..Len(CategoryTriggers) :
             (/\ AnyIn(CategoryTriggers[i].phrases, m)
              /\ \A j \in 1..(i - 1) : ~AnyIn(CategoryTriggers[j].phrases, m))
               => ReplyCategory(response) = CategoryTriggers[i].a
        /\ (\A i \in 1..Len(CategoryTriggers) : ~AnyIn(CategoryTriggers[i].phrases, m))
             => ReplyCategory(response) = "none"
        /\ \A i \in 1..Len(KEYWORDS) :
             ReplyOfKeyword(response, i)
               => /\ AnyIn(KEYWORDS[i].keywords, m)
                  /\ \A j \in 1..(i - 1) : ~AnyIn(KEYWORDS[j].keywords, m)
                  /\ \A j \in 1..Len(CategoryTriggers) : ~AnyIn(CategoryTriggers[j].phrases, m)

\* "fees" holds keywords of the keys pricing and fees, and is answered for pricing
C13_Witness ==
  /\ response # NotReplied
  /\ user_message_of(posted) = <<"f","e","e","s">>
  /\ \E i \in 1..Len(KEYWORDS) :
       KEYWORDS[i].key = <<"p","r","i","c","i","n","g">> /\ ReplyOfKeyword(response, i)

\* the message holds no phrase of any bucket of chat
NoPhrase(m) ==
  /\ \A i \in 1..Len(CategoryTriggers) : ~AnyIn(CategoryTriggers[i].phrases, m)
  /\ ~AnyIn(labour_code_keywords, m)
  /\ ~AnyIn(service_keywords, m)
  /\ \A i \in 1..Len(KEYWORDS) : ~AnyIn(KEYWORDS[i].keywords, m)

\* C14: for every key s of the minimum-wages URL map the message
\* "minimum wages of <s>", in any letter case, makes chat call the
\* minimum-wages fetcher with state s; a non-empty message with no trigger
\* phrase and no keyword is answered with the fallback fragment whenever
\* Ollama is down or gives no answer.
C14_EndToEndDispatch ==
  response # NotReplied =>
    /\ \A i \in 1..Len(STATE_MINIMUM_WAGE_URLS) :
         user_message_of(posted) = MinimumWagesOf(STATE_MINIMUM_WAGE_URLS[i].state)
           => /\ fetched # NotFetched
              /\ fetch_act = "minimum_wages"
              /\ fetch_state = STATE_MINIMUM_WAGE_URLS[i].state
              /\ fetched.kind = "dict" /\ fetched.html.origin = "fetch_minimum_wages"
    /\ (/\ user_message_of(posted) # <<>>
        /\ NoPhrase(user_message_of(posted))
        /\ ollama \in {"down", "no_answer"})
         => (response.response.kind = "fallback" /\ fetched = NotFetched)

\* the question for Tamil Nadu in upper case reached the minimum-wages fetcher
C14_Witness ==
  /\ response # NotReplied
  /\ posted = Upper(MinimumWagesOf(<<"t","a","m","i","l"," ","n","a","d","u">>))
  /\ fetch_act = "minimum_wages"
  /\ fetch_state = <<"t","a","m","i","l"," ","n","a","d","u">>
  /\ fetched.kind = "dict"

\* the act types and states of the forms, as posted
MINW == <<"m","i","n","i","m","u","m","_","w","a","g","e","s">>
HOLI == <<"h","o","l","i","d","a","y","_","l","i","s","t">>
WORK == <<"w","o","r","k","i","n","g","_","h","o","u","r","s">>
SHOP == <<"s","h","o","p","_","e","s","t","a","b","l","i","s","h","m","e","n","t">>
MINWU == <<"M","i","n","i","m","u","m","_","W","a","g","e","s">>
LCW == <<"l","a","b","o","u","r","_","c","o","d","e","_","w","a","g","e","s">>
TAMIL == <<"T","a","m","i","l","_","N","a","d","u">>
KERALA == <<"k","e","r","a","l","a">>

(***************************************************************************)
(* The pending-download tokens: request_download stores a token,           *)
(* generate_pdf redeems it.  Every request runs on a thread of its own.    *)
(***************************************************************************)
\* get_ist_now() when the UTC clock shows u seconds: UTC+5:30, made naive
get_ist_now(u) == u + (5 * 3600 + 30 * 60)

\* datetime.now() on a server whose local time is ahead seconds ahead of UTC
datetime_now(u, ahead) == u + ahead

\* (datetime.now() - pending_data['created_at']).total_seconds() > 600
TokenExpired(now, created_at) == now - created_at > 600

\* a redemption that leaves the token in the map
del_token_kept(pending, token) == pending

\* a redemption that also sweeps every other entry out of the map
del_token_sweep(pending, token) == <<>>

\* del pending_downloads[token]
del_token(pending, token) == [k \in (DOMAIN pending) \ {token} |-> pending[k]]

\* pending_downloads[download_token] = entry
put_token(pending, token, entry) ==
  [k \in (DOMAIN pending) \cup {token} |-> IF k = token THEN entry ELSE pending[k]]

\* .replace('_', ' ')
ReplaceUnderscore(s) == [i \in 1..Len(s) |-> IF s[i] = "_" THEN " " ELSE s[i]]

\* the branch of generate_pdf a lowercased actType takes, None for "Invalid act type"
ActBranch(a) ==
  CASE a = MINW -> "minimum_wages"
    [] a = HOLI -> "holiday_list"
    [] a = WORK -> "working_hours"
    [] a = SHOP -> "shop_establishment"
    [] OTHER -> None

\* the JSON bodies posted to /request-download: state and actType of the form
Forms ==
  {[state |-> TAMIL, actType |-> MINWU],
   [state |-> KERALA, actType |-> LCW],
   [state |-> <<>>, actType |-> MINW]}

\* for field in required_fields: if not data.get(field)
MissingField(data) == data.state = <<>> \/ data.actType = <<>>

\* what the upstream site does when generate_pdf fetches
PdfUpstreams == {NetworkFailure, [net |-> "ok", status |-> 200, soup |-> DocDelhi]}

InitDownload ==
  /\ pending_downloads = <<>>
  /\ pending_lock = 0
  /\ utc = 0
  /\ zone \in {0, 19800, 20700}   \* a server on UTC, on IST, on UTC+5:45
  /\ pc = [c \in Requests |-> "new"]
  /\ local = [c \in Requests |-> NoLocal]
  /\ answer = [c \in Requests |-> NoAnswer]
  /\ stored_at = <<>>
  /\ next_token = 1
  /\ IdleDetect /\ IdleFetch /\ IdleChat /\ IdleClients /\ IdleEnquiry /\ IdleExtract /\ IdleDate /\ IdleSheet

Others == <<detectVars, fetchVars, chatVars, clientVars, enquiryVars, extractVars, dateVars, sheetVars>>

\* request c arrives: the requests are numbered in the order of their arrival
Arrives(c) == pc[c] = "new" /\ \A o \in 1..(c - 1) : pc[o] # "new"

\* the wall clock advances
Tick ==
  /\ \E d \in TickSteps : utc + d <= MaxClock /\ utc' = utc + d
  /\ UNCHANGED <<pending_downloads, pending_lock, zone, pc, local, answer, stored_at, next_token>>
  /\ UNCHANGED Others

\* request_download up to the pending_lock: validation, token, database log
RequestDownload(c) ==
  /\ Arrives(c)
  /\ \E data \in Forms, db \in {"logged", "failed"} :
       IF MissingField(data)
       THEN /\ pc' = [pc EXCEPT ![c] = "done"]
            /\ local' = [local EXCEPT ![c] = [NoLocal EXCEPT !.op = "request_download", !.data = data]]
            /\ answer' = [answer EXCEPT ![c] = Answer(400, "Missing field", FALSE, -1)]
            /\ UNCHANGED next_token
       ELSE /\ pc' = [pc EXCEPT ![c] = "rd_wait"]
            /\ local' = [local EXCEPT ![c] =
                 [op |-> "request_download", token |-> next_token, data |-> data,
                  download_id |-> IF db = "logged" THEN next_token ELSE 0]]
            /\ next_token' = next_token + 1
            /\ UNCHANGED answer
  /\ UNCHANGED <<pending_downloads, pending_lock, utc, zone, stored_at>>
  /\ UNCHANGED Others

\* a Lock that lets every thread in
LockFree_always(holder) == TRUE

\* Lock.acquire returns only when no thread holds the lock
LockFree(holder) == holder = 0

\* with pending_lock: (either handler)
Acquire(c) ==
  /\ pc[c] \in {"rd_wait", "gp_wait"}
  /\ LockFree(pending_lock)
  /\ pending_lock' = c
  /\ pc' = [pc EXCEPT ![c] = IF pc[c] = "rd_wait" THEN "rd_store" ELSE "gp_locked"]
  /\ UNCHANGED <<pending_downloads, utc, zone, local, answer, stored_at, next_token>>
  /\ UNCHANGED Others

\* request_download inside the lock and after it: the token is stored, even
\* if the database failed; the answer is a success only if the database
\* logged the request
Store(c) ==
  /\ pc[c] = "rd_store"
  /\ pending_downloads' = put_token(pending_downloads, local[c].token,
       [data |-> local[c].data, download_id |-> local[c].download_id,
        created_at |-> get_ist_now(utc)])
  /\ stored_at' = put_token(stored_at, local[c].token, utc)
  /\ pending_lock' = 0
  /\ answer' = [answer EXCEPT ![c] =
       IF local[c].download_id # 0 THEN Answer(200, "none", FALSE, -1)
       ELSE Answer(500, "Database error - please try again", FALSE, -1)]
  /\ pc' = [pc EXCEPT ![c] = "done"]
  /\ UNCHANGED <<utc, zone, local, next_token>>
  /\ UNCHANGED Others

\* GET /generate-pdf/<token>: a token that was issued, or one that never was (0)
GeneratePdf(c) ==
  /\ Arrives(c)
  /\ \E token \in 0..(next_token - 1) :
       local' = [local EXCEPT ![c] = [NoLocal EXCEPT !.op = "generate_pdf", !.token = token]]
  /\ pc' = [pc EXCEPT ![c] = "gp_wait"]
  /\ UNCHANGED <<pending_downloads, pending_lock, utc, zone, answer, stored_at, next_token>>
  /\ UNCHANGED Others

\* generate_pdf inside the lock: the lookup, the expiry test, and the removal
\* of the token, expired or redeemed
Redeem(c) ==
  /\ pc[c] = "gp_locked"
  /\ IF local[c].token \notin DOMAIN pending_downloads
     THEN /\ answer' = [answer EXCEPT ![c] =
                 Answer(404, "Invalid or expired download token", FALSE, -1)]
          /\ pc' = [pc EXCEPT ![c] = "done"]
          /\ UNCHANGED <<pending_downloads, local>>
     ELSE LET pending_data == pending_downloads[local[c].token]
              elapsed      == utc - stored_at[local[c].token]
          IN  /\ pending_downloads' = del_token(pending_downloads, local[c].token)
              /\ IF TokenExpired(datetime_now(utc, zone), pending_data.created_at)
                 THEN /\ answer' = [answer EXCEPT ![c] =
                             Answer(410, "Download token expired", FALSE, elapsed)]
                      /\ pc' = [pc EXCEPT ![c] = "done"]
                      /\ UNCHANGED local
                 ELSE /\ local' = [local EXCEPT ![c].data = pending_data.data,
                                                ![c].download_id = pending_data.download_id]
                      /\ answer' = [answer EXCEPT ![c].reached = TRUE,
                                                  ![c].elapsed = elapsed]
                      /\ pc' = [pc EXCEPT ![c] = "gp_fetch"]
  /\ pending_lock' = 0
  /\ UNCHANGED <<utc, zone, stored_at, next_token>>
  /\ UNCHANGED Others

\* the outcome of generate_pdf after the lock, for the upstream answer up and
\* the outcome pdf of create_pdf_file
PdfOutcome(form_data, up, pdf) ==
  LET state    == ReplaceUnderscore(Lower(form_data.state))
      a        == ActBranch(Lower(form_data.actType))
      pdf_data == Fetcher(a, state, up)
  IN  IF a = None THEN [status |-> 400, error |-> "Invalid act type"]
      ELSE IF pdf_data.kind = "raise" THEN [status |-> 500, error |-> pdf_data.exc]
      ELSE IF pdf_data.kind # "dict" \/ pdf_data.tables_data = <<>>
      THEN [status |-> 404, error |-> "No data found to generate PDF"]
      ELSE IF pdf = "raises" THEN [status |-> 500, error |-> "create_pdf_file"]
      ELSE [status |-> 200, error |-> "none"]

\* the fetch and the PDF
FetchPdf(c) ==
  /\ pc[c] = "gp_fetch"
  /\ \E up \in PdfUpstreams, pdf \in {"built", "raises"} :
       LET out == PdfOutcome(local[c].data, up, pdf)
       IN  answer' = [answer EXCEPT ![c].status = out.status, ![c].error = out.error]
  /\ pc' = [pc EXCEPT ![c] = "done"]
  /\ UNCHANGED <<pending_downloads, pending_lock, utc, zone, local, stored_at, next_token>>
  /\ UNCHANGED Others

\* key.replace(' ', '_')
ReplaceSpace(s) == [i \in 1..Len(s) |-> IF s[i] = " " THEN "_" ELSE s[i]]

\* the loop of download_data over the keys of a map: the first key that is
\* state_key or that is state with spaces for underscores, None when none is
MatchedState(url_dict, state) ==
  IF \E i \in 1..Len(url_dict) :
       url_dict[i].state = ReplaceUnderscore(state) \/ ReplaceSpace(url_dict[i].state) = state
  THEN url_dict[SetMin({i \in 1..Len(url_dict) :
                          \/ url_dict[i].state = ReplaceUnderscore(state)
                          \/ ReplaceSpace(url_dict[i].state) = state})].state
  ELSE NoneStr

\* download_data from the fetcher's result on: None answers 404 with the text
\* of the branch, an exception 500, and everything else is made a PDF
DirectServe(fetched_data, pdf, none_error) ==
  IF fetched_data.kind = "None" THEN [status |-> 404, error |-> none_error]
  ELSE IF fetched_data.kind = "raise" THEN [status |-> 500, error |-> fetched_data.exc]
  ELSE IF pdf = "raises" THEN [status |-> 500, error |-> "create_pdf_file"]
  ELSE [status |-> 200, error |-> "none"]

\* a branch of download_data that looks the state up in the keys of a map
DirectByKey(a, matched_state, up, pdf) ==
  IF matched_state = NoneStr THEN [status |-> 404, error |-> "State not found"]
  ELSE DirectServe(Fetcher(a, matched_state, up), pdf, "No data available")

\* the state of the shop & establishment branch: the key, or state_key
ShopState(matched_state, state_key) ==
  IF matched_state = NoneStr THEN state_key ELSE matched_state

\* GET /download/<state>/<act_type>: the four branches by act_type, compared
\* as it stands in the path
DirectOutcome(path, up, pdf) ==
  CASE path.actType = HOLI ->
         DirectServe(fetch_holiday_list(ReplaceUnderscore(path.state), up), pdf,
                     "State not found")
    [] path.actType = MINW ->
         DirectByKey("minimum_wages", MatchedState(STATE_MINIMUM_WAGE_URLS, path.state),
                     up, pdf)
    [] path.actType = WORK ->
         DirectByKey("working_hours", MatchedState(STATE_WORKING_HOURS_URLS, path.state),
                     up, pdf)
    [] path.actType = SHOP ->
         DirectServe(fetch_shop_establishment(
                       ShopState(MatchedState(STATE_VARIATIONS, path.state),
                                 ReplaceUnderscore(path.state)), up),
                     pdf, "No data available")
    [] OTHER -> [status |-> 404, error |-> "Invalid act type"]

\* the paths that are requested from /download
DirectPaths ==
  {[state |-> Lower(TAMIL), actType |-> MINW],
   [state |-> KERALA, actType |-> LCW]}

\* download_data: one call, from the path to the answer
DownloadData(c) ==
  /\ Arrives(c)
  /\ \E path \in DirectPaths, up \in PdfUpstreams, pdf \in {"built", "raises"} :
       /\ local' = [local EXCEPT ![c] = [NoLocal EXCEPT !.op = "download_data", !.data = path]]
       /\ answer' = [answer EXCEPT ![c] =
            Answer(DirectOutcome(path, up, pdf).status, DirectOutcome(path, up, pdf).error,
                   FALSE, -1)]
  /\ pc' = [pc EXCEPT ![c] = "done"]
  /\ UNCHANGED <<pending_downloads, pending_lock, utc, zone, stored_at, next_token>>
  /\ UNCHANGED Others

NextDownload ==
  \/ Tick
  \/ \E c \in Requests :
       \/ DownloadData(c)
       \/ RequestDownload(c)
       \/ Acquire(c)
       \/ Store(c)
       \/ GeneratePdf(c)
       \/ Redeem(c)
       \/ FetchPdf(c)

SpecDownload == InitDownload /\ [][NextDownload]_vars

\* the requests for /generate-pdf on a token that got past the token lookup
PastLookup(token) ==
  {c \in Requests : local[c].op = "generate_pdf" /\ local[c].token = token
                      /\ answer[c].reached}

\* C1: a pending-download token is redeemable at most once: of the
\* generate_pdf calls on a token created by request_download, at most one
\* gets past the token lookup and reaches the fetch step, and every other
\* call on it that has answered got 404 "Invalid or expired download token".
C1_TokenRedeemedAtMostOnce ==
  \A token \in 1..(next_token - 1) :
    /\ Cardinality(PastLookup(token)) <= 1
    /\ \A c \in PastLookup(token) :
         \A o \in Requests \ {c} :
           (local[o].op = "generate_pdf" /\ local[o].token = token /\ pc[o] = "done")
             => (answer[o].status = 404
                   /\ answer[o].error = "Invalid or expired download token")

\* two calls on one token, one answered from the fetch step and one refused
C1_Witness ==
  \E c, o \in Requests :
    /\ c # o
    /\ local[c].op = "generate_pdf" /\ local[o].op = "generate_pdf"
    /\ local[c].token = local[o].token /\ local[c].token # 0
    /\ pc[c] = "done" /\ answer[c].reached
    /\ pc[o] = "done" /\ answer[o].status = 404

\* C2: a generate_pdf call that finds its token more than 600 seconds after
\* request_download stored it answers 410 "Download token expired", and
\* neither fetches nor serves a PDF.
C2_LateRedemptionExpires ==
  \A c \in Requests :
    (local[c].op = "generate_pdf" /\ answer[c].elapsed > 600)
      => /\ ~answer[c].reached
         /\ pc[c] = "done" => (answer[c].status = 410
                                 /\ answer[c].error = "Download token expired")

\* C3: a generate_pdf call that finds its token at most 600 seconds after
\* request_download stored it is never refused as expired, whatever the
\* server's clock.
C3_EarlyRedemptionNotExpired ==
  \A c \in Requests :
    (local[c].op = "generate_pdf" /\ answer[c].elapsed >= 0 /\ answer[c].elapsed <= 600)
      => answer[c].status # 410

\* where a request is inside a with pending_lock: block
InLock == {"rd_store", "gp_locked"}

\* C21: the pending-download map is read and written only by the request
\* that holds pending_lock: at most one request is inside a locked block, the
\* map changes only in a step of the holder, which releases the lock, and a
\* request that fetches and renders does not hold the lock.
C21_MapAccessUnderLock ==
  [][/\ \A c \in Requests : pc[c] \in InLock => pending_lock = c
     /\ \A c \in Requests : pc'[c] \in InLock => pending_lock' = c
     /\ pending_downloads' # pending_downloads
          => /\ pending_lock \in Requests
             /\ pc[pending_lock] \in InLock
             /\ pc'[pending_lock] \notin InLock
             /\ pending_lock' = 0
     /\ \A c \in Requests : pc'[c] = "gp_fetch" => pending_lock' # c]_vars

\* a generate_pdf holds the lock on a stored token while another request
\* waits for the lock
C21_Witness ==
  \E c, o \in Requests :
    /\ pc[c] = "gp_locked"
    /\ pending_lock = c
    /\ local[c].token \in DOMAIN pending_downloads
    /\ pc[o] \in {"rd_wait", "gp_wait"}

\* the generate_pdf call that holds the lock is on this token
RedeemedNow(token) ==
  /\ pending_lock \in Requests
  /\ pc[pending_lock] = "gp_locked"
  /\ local[pending_lock].op = "generate_pdf"
  /\ local[pending_lock].token = token

\* C22: an entry of the pending-download map leaves the map only in the
\* step of a generate_pdf call on its token; in every other step, and as time
\* passes, it stays and stays as it is, expired or not.
C22_OnlyRedemptionRemoves ==
  [][\A token \in DOMAIN pending_downloads :
       IF token \in DOMAIN pending_downloads'
       THEN pending_downloads'[token] = pending_downloads[token]
       ELSE RedeemedNow(token)]_vars

\* an entry older than 600 seconds is in the map after another token was
\* stored and a call on that other token has been answered
C22_Witness ==
  \E token \in DOMAIN pending_downloads : \E c \in Requests :
    /\ utc - stored_at[token] > 600
    /\ local[c].op = "generate_pdf"
    /\ local[c].token # token
    /\ local[c].token # 0
    /\ answer[c].elapsed >= 0
    /\ pc[c] = "done"

\* the generate_pdf calls that found their token in the map
FoundToken == {c \in Requests : local[c].op = "generate_pdf" /\ answer[c].elapsed >= 0}

\* C23: once generate_pdf has found its token in the map the token is
\* absent from the map, from the end of the locked block on and whatever the
\* call answers: PDF, 410, 400, 404 or 500.
C23_FoundTokenIsConsumed ==
  \A c \in FoundToken : local[c].token \notin DOMAIN pending_downloads

\* a redemption whose PDF generation failed with 500, and a second call on
\* the same token that was refused
C23_Witness ==
  \E c, o \in Requests :
    /\ c # o
    /\ c \in FoundToken /\ pc[c] = "done" /\ answer[c].status = 500
    /\ local[o].op = "generate_pdf" /\ local[o].token = local[c].token
    /\ pc[o] = "done" /\ answer[o].status = 404
    /\ local[c].token \notin DOMAIN pending_downloads

\* C24: every token of the map was stored by a request_download that
\* answered with success; a call that answers with an error leaves the map
\* as it was.
C24_OnlySuccessStores ==
  \A token \in DOMAIN pending_downloads :
    \E c \in Requests :
      /\ local[c].op = "request_download"
      /\ local[c].token = token
      /\ (pc[c] = "done" => answer[c].status = 200)

\* the requests that were answered with a PDF of a state category
ServedPdf ==
  {c \in Requests : /\ pc[c] = "done"
                    /\ answer[c].status = 200
                    /\ local[c].op \in {"generate_pdf", "download_data"}}

\* C25: every PDF of a state category is the answer of a generate_pdf call
\* that consumed a token, and the token was created by a request_download
\* that passed its required-field check.
C25_PdfOnlyByToken ==
  \A c \in ServedPdf :
    /\ local[c].op = "generate_pdf"
    /\ answer[c].reached
    /\ \E o \in Requests :
         /\ local[o].op = "request_download"
         /\ local[o].token = local[c].token
         /\ ~MissingField(local[o].data)

(***************************************************************************)
(* The lazily initialised clients: get_db_pool and                         *)
(* get_google_sheet_client, called by concurrent workers.                  *)
(***************************************************************************)
\* GOOGLE_SHEET_ENABLED with the default of the environment variable
GOOGLE_SHEET_ENABLED == TRUE

InitClients ==
  /\ IdleClients
  /\ IdleDetect /\ IdleFetch /\ IdleChat /\ IdleDownload /\ IdleEnquiry /\ IdleExtract /\ IdleDate /\ IdleSheet

NotClients == <<detectVars, fetchVars, chatVars, downloadVars, enquiryVars, extractVars, dateVars, sheetVars>>

\* return value: the worker's call is over
Return(w, value) ==
  /\ wlocal' = [wlocal EXCEPT ![w].returned = value]
  /\ wpc' = [wpc EXCEPT ![w] = "done"]

\* get_db_pool: if db_pool is None
GetDbPool(w) ==
  /\ wpc[w] = "new"
  /\ IF db_pool = 0
     THEN /\ wpc' = [wpc EXCEPT ![w] = "db_create"]
          /\ wlocal' = [wlocal EXCEPT ![w].op = "get_db_pool"]
     ELSE /\ wpc' = [wpc EXCEPT ![w] = "done"]
          /\ wlocal' = [wlocal EXCEPT ![w] = [op |-> "get_db_pool", returned |-> db_pool]]
  /\ UNCHANGED <<db_pool, gs_client, made, failed>>
  /\ UNCHANGED NotClients

\* db_pool = ConnectionPool(...), or the constructor raises
DbCreate(w) ==
  /\ wpc[w] = "db_create"
  /\ \E outcome \in {"constructed", "raises"} :
       IF outcome = "constructed"
       THEN /\ db_pool' = made.pools + 1
            /\ made' = [made EXCEPT !.pools = made.pools + 1]
            /\ wpc' = [wpc EXCEPT ![w] = "db_test"]
            /\ UNCHANGED <<wlocal, failed>>
       ELSE /\ Return(w, 0)
            /\ failed' = TRUE
            /\ UNCHANGED <<db_pool, made>>
  /\ UNCHANGED gs_client
  /\ UNCHANGED NotClients

\* with db_pool.connection(): SELECT 1, on the pool the module variable holds
DbTest(w) ==
  /\ wpc[w] = "db_test"
  /\ \E outcome \in {"connected", "raises"} :
       IF outcome = "connected"
       THEN /\ wpc' = [wpc EXCEPT ![w] = "db_return"]
            /\ UNCHANGED <<wlocal, failed>>
       ELSE /\ Return(w, 0)
            /\ failed' = TRUE
  /\ UNCHANGED <<db_pool, gs_client, made>>
  /\ UNCHANGED NotClients

\* return db_pool
DbReturn(w) ==
  /\ wpc[w] = "db_return"
  /\ Return(w, db_pool)
  /\ UNCHANGED <<db_pool, gs_client, made, failed>>
  /\ UNCHANGED NotClients

\* get_google_sheet_client: if gs_client is None and GOOGLE_SHEET_ENABLED,
\* then the checks of the credentials file
GetGoogleSheetClient(w) ==
  /\ wpc[w] = "new"
  /\ \E credentials \in {"readable", "unreadable"} :
       IF gs_client = 0 /\ GOOGLE_SHEET_ENABLED
       THEN IF credentials = "readable"
            THEN /\ wpc' = [wpc EXCEPT ![w] = "gs_create"]
                 /\ wlocal' = [wlocal EXCEPT ![w].op = "get_google_sheet_client"]
                 /\ UNCHANGED failed
            ELSE /\ wpc' = [wpc EXCEPT ![w] = "done"]
                 /\ wlocal' = [wlocal EXCEPT ![w] =
                      [op |-> "get_google_sheet_client", returned |-> 0]]
                 /\ failed' = TRUE
       ELSE /\ wpc' = [wpc EXCEPT ![w] = "done"]
            /\ wlocal' = [wlocal EXCEPT ![w] =
                 [op |-> "get_google_sheet_client", returned |-> gs_client]]
            /\ UNCHANGED failed
  /\ UNCHANGED <<db_pool, gs_client, made>>
  /\ UNCHANGED NotClients

\* gs_client = gspread.authorize(creds), or the credentials cannot be loaded
GsCreate(w) ==
  /\ wpc[w] = "gs_create"
  /\ \E outcome \in {"authorized", "raises"} :
       IF outcome = "authorized"
       THEN /\ gs_client' = made.clients + 1
            /\ made' = [made EXCEPT !.clients = made.clients + 1]
            /\ wpc' = [wpc EXCEPT ![w] = "gs_open"]
            /\ UNCHANGED <<wlocal, failed>>
       ELSE /\ gs_client' = 0
            /\ Return(w, 0)
            /\ failed' = TRUE
            /\ UNCHANGED made
  /\ UNCHANGED db_pool
  /\ UNCHANGED NotClients

\* gs_client.open_by_key(GOOGLE_SHEET_ID): on failure gs_client is reset
GsOpen(w) ==
  /\ wpc[w] = "gs_open"
  /\ \E outcome \in {"opened", "raises"} :
       IF outcome = "opened" /\ gs_client # 0
       THEN /\ wpc' = [wpc EXCEPT ![w] = "gs_return"]
            /\ UNCHANGED <<gs_client, wlocal, failed>>
       ELSE /\ gs_client' = 0
            /\ Return(w, 0)
            /\ failed' = TRUE
  /\ UNCHANGED <<db_pool, made>>
  /\ UNCHANGED NotClients

\* return gs_client
GsReturn(w) ==
  /\ wpc[w] = "gs_return"
  /\ Return(w, gs_client)
  /\ UNCHANGED <<db_pool, gs_client, made, failed>>
  /\ UNCHANGED NotClients

NextClients ==
  \E w \in Workers :
    \/ GetDbPool(w)
    \/ DbCreate(w)
    \/ DbTest(w)
    \/ DbReturn(w)
    \/ GetGoogleSheetClient(w)
    \/ GsCreate(w)
    \/ GsOpen(w)
    \/ GsReturn(w)

SpecClients == InitClients /\ [][NextClients]_vars

\* C8: the lazily initialised clients are constructed at most once under
\* concurrency: as long as every creation succeeds, the workers' calls of
\* get_db_pool construct one ConnectionPool between them and their calls of
\* get_google_sheet_client one spreadsheet client.
C8_ClientsConstructedOnce ==
  ~failed => (made.pools <= 1 /\ made.clients <= 1)

\* the calls of get_db_pool that returned None
ReturnedNoPool ==
  {w \in Workers : wlocal[w].op = "get_db_pool" /\ wpc[w] = "done" /\ wlocal[w].returned = 0}

\* C28: when a call of get_db_pool has returned None and no other call has
\* started, the module's db_pool is still None, so that the next call creates
\* a pool again and no call hands out a pool whose test failed.
C28_FailedPoolIsNotKept ==
  \A w \in ReturnedNoPool :
    (\A o \in Workers \ {w} : wpc[o] = "new") => db_pool = 0

\* ---------------------------------------------------------------------------
\* The enquiry forms: submit_service_enquiry, submit_fee_enquiry, submit_enquiry
\* ---------------------------------------------------------------------------

\* the first character class of validate_email: [a-zA-Z0-9._%+-]
EmailLocalClass ==
  LowerLetters \cup DOMAIN UpperToLower \cup Digits \cup {".", "_", "%", "+", "-"}

\* the second character class of validate_email: [a-zA-Z0-9.-]
EmailDomainClass == LowerLetters \cup DOMAIN UpperToLower \cup Digits \cup {".", "-"}

\* [a-zA-Z]
EmailTldClass == LowerLetters \cup DOMAIN UpperToLower

\* ^[a-zA-Z0-9._%+-]+@[a-zA-Z0-9.-]+\.[a-zA-Z]{2,}$ on the text t that ends
\* at e: the "@" at a and the last "." at d, found by backtracking
EmailPatternUpTo(t, e) ==
  \E a \in 2..e : \E d \in (a + 2)..(e - 2) :
    /\ t[a] = "@"
    /\ t[d] = "."
    /\ \A i \in 1..(a - 1) : t[i] \in EmailLocalClass
    /\ \A i \in (a + 1)..(d - 1) : t[i] \in EmailDomainClass
    /\ \A i \in (d + 1)..e : t[i] \in EmailTldClass

\* validate_email on a str: re.match, whose $ also matches before a last "\n"
validate_email(email) ==
  \/ EmailPatternUpTo(email, Len(email))
  \/ /\ Len(email) > 0
     /\ email[Len(email)] = "\n"
     /\ EmailPatternUpTo(email, Len(email) - 1)

\* the class that validate_phone deletes: [\s\-\(\)\+]
PhoneNoise == WhiteSpace \cup {"-", "(", ")", "+"}

\* re.sub(r'[\s\-\(\)\+]', '', phone)
clean_phone(phone) == SelectSeq(phone, LAMBDA c : c \notin PhoneNoise)

\* ^[6-9]\d{9}$ on the text without its noise
PhonePattern(clean) ==
  /\ Len(clean) = 10
  /\ clean[1] \in {"6", "7", "8", "9"}
  /\ \A i \in 2..10 : clean[i] \in Digits

validate_phone(phone) == PhonePattern(clean_phone(phone))

\* not data.get(field): the key is absent, or its value is "" or 0
Falsy(value) ==
  \/ value.type = "absent"
  \/ value.type = "str" /\ value.text = <<>>
  \/ value.type = "int" /\ value.text = <<"0">>

\* the routes and the name under which each appends to the sheet
Handlers == {"submit_service_enquiry", "submit_fee_enquiry", "submit_enquiry"}

\* the required fields of the model, in the order of the loop; companyName,
\* service, query and description are tested as fullName is
required_fields == <<"fullName", "email", "contactNumber">>

\* the texts of the two 400 answers of the validators, by route
InvalidEmailText(handler) ==
  IF handler = "submit_enquiry" THEN "Invalid email" ELSE "Invalid email format"

InvalidPhoneText(handler) ==
  IF handler = "submit_enquiry" THEN "Invalid phone" ELSE "Invalid phone number"

\* the lines from data = request.json to the last validator: the answer that
\* ends the handler there, or NoEnquiryAnswer when the handler goes on. A body
\* of null has no get, a number is no text for re.match or re.sub: both raise,
\* and the except of the handler answers 500
Validation(body) ==
  IF body.json = "null"
  THEN EnquiryAnswer(500, FALSE, "AttributeError")
  ELSE IF \E i \in 1..Len(required_fields) : Falsy(body[required_fields[i]])
  THEN EnquiryAnswer(400, FALSE, "Missing field")
  ELSE IF body.email.type # "str"
  THEN EnquiryAnswer(500, FALSE, "TypeError")
  ELSE IF ~validate_email(body.email.text)
  THEN EnquiryAnswer(400, FALSE, InvalidEmailText(body.handler))
  ELSE IF body.contactNumber.type # "str"
  THEN EnquiryAnswer(500, FALSE, "TypeError")
  ELSE IF ~validate_phone(body.contactNumber.text)
  THEN EnquiryAnswer(400, FALSE, InvalidPhoneText(body.handler))
  ELSE NoEnquiryAnswer

\* the bodies that are posted
PostedNames == {JsonStr(<<"A","s","h","a">>), JsonAbsent}

PostedEmails ==
  { JsonStr(<<"a","@","b",".","i","n">>),
    JsonStr(<<"a","@","b">>),
    JsonStr(<<>>),
    JsonInt(<<"1","2","3","4","5">>),
    JsonAbsent }

PostedPhones ==
  { JsonStr(<<"9","8","7","6","5","4","3","2","1","0">>),
    JsonStr(<<"(","9","8","7","6","5",")"," ","4","3","2","1","0">>),
    JsonStr(<<"1","2","3","4","5">>),
    JsonInt(<<"9","8","7","6","5","4","3","2","1","0">>),
    JsonAbsent }

PostedBodies ==
  { [handler |-> h, json |-> "object", fullName |-> n, email |-> e, contactNumber |-> p] :
      h \in Handlers, n \in PostedNames, e \in PostedEmails, p \in PostedPhones }
  \cup
  { [handler |-> h, json |-> "null", fullName |-> JsonAbsent, email |-> JsonAbsent,
     contactNumber |-> JsonAbsent] : h \in Handlers }

\* def send_service_enquiry_email(data, enquiry_id) and
\* def send_fee_enquiry_email(data, enquiry_id)
EmailParameters == <<"data", "enquiry_id">>

\* the arguments of the call in submit_service_enquiry and submit_fee_enquiry
EmailArguments == <<"data", "enquiry_id", "ist_time">>

\* what the body of the mail function does when it runs
SmtpOutcomes == {"sent", "no password", "auth error", "network error"}

\* what the insert does: committed, no pool, or an exception
DbOutcomes == {"committed", "no pool", "error"}

\* the lines of append_to_google_sheet before the retry loop
SheetOutcomes == {"ready", "no client", "error"}

\* what one worksheet.append_row of the loop does: it returns, or it raises an
\* APIError of a rate limit, another APIError, or another exception
AppendOutcomes == {"appended", "rate limit", "api error", "error"}

\* for attempt in range(3)
MaxAttempts == 3

\* 2 ** attempt
RECURSIVE Pow2(_)
Pow2(n) == IF n = 0 THEN 1 ELSE 2 * Pow2(n - 1)

InitEnquiry ==
  /\ enquiry \in PostedBodies
  /\ epc = "received"
  /\ sinks = NoSinks
  /\ enq_answer = NoEnquiryAnswer
  /\ IdleDetect /\ IdleFetch /\ IdleChat /\ IdleDownload /\ IdleClients
  /\ IdleExtract /\ IdleDate /\ IdleSheet

NotEnquiry ==
  <<detectVars, fetchVars, chatVars, downloadVars, clientVars, extractVars, dateVars, sheetVars>>

\* the required fields and the two validators; submit_enquiry has no
\* database and no mail
Validate ==
  /\ epc = "received"
  /\ IF Validation(enquiry) # NoEnquiryAnswer
     THEN /\ enq_answer' = Validation(enquiry)
          /\ epc' = "done"
     ELSE /\ enq_answer' = enq_answer
          /\ epc' = IF enquiry.handler = "submit_enquiry" THEN "sheet" ELSE "insert"
  /\ UNCHANGED <<enquiry, sinks>>
  /\ UNCHANGED NotEnquiry

\* STEP 1: the insert, in its own try
Insert ==
  /\ epc = "insert"
  /\ \E db \in DbOutcomes :
       sinks' = [sinks EXCEPT !.db_calls = @ + 1,
                              !.db_rows = IF db = "committed" THEN @ + 1 ELSE @]
  /\ epc' = "email"
  /\ UNCHANGED <<enquiry, enq_answer>>
  /\ UNCHANGED NotEnquiry

\* STEP 2: the call of the mail function, in its own try. A call whose
\* arguments do not fit the parameters raises TypeError before the body runs,
\* whatever the credentials and the server are
Email ==
  /\ epc = "email"
  /\ \E smtp \in SmtpOutcomes :
       sinks' = [sinks EXCEPT
                   !.email_calls = @ + 1,
                   !.smtp = smtp,
                   !.emails_sent =
                      IF Len(EmailArguments) = Len(EmailParameters) /\ smtp = "sent"
                      THEN @ + 1 ELSE @]
  /\ epc' = "sheet"
  /\ UNCHANGED <<enquiry, enq_answer>>
  /\ UNCHANGED NotEnquiry

\* STEP 3: append_to_google_sheet up to the retry loop: the switch, the
\* client, the spreadsheet, the worksheet and its headers
Sheet ==
  /\ epc = "sheet"
  /\ \E sheet \in SheetOutcomes :
       IF GOOGLE_SHEET_ENABLED /\ sheet = "ready"
       THEN /\ sinks' = [sinks EXCEPT !.sheet_calls = @ + 1]
            /\ epc' = "append"
       ELSE /\ sinks' = [sinks EXCEPT !.sheet_calls = @ + 1, !.sheet_returned = "False"]
            /\ epc' = "respond"
  /\ UNCHANGED <<enquiry, enq_answer>>
  /\ UNCHANGED NotEnquiry

\* what one pass of the loop leaves: the return value, or "again"
AfterAppend(attempt, outcome) ==
  CASE outcome = "appended" -> "True"
    [] outcome = "rate limit" -> IF attempt = MaxAttempts - 1 THEN "True" ELSE "again"
    [] outcome = "api error" -> "False"
    [] outcome = "error" -> IF attempt = MaxAttempts - 1 THEN "False" ELSE "again"

\* the time.sleep of one pass of the loop, 0 for none
SleepOf(attempt, outcome) ==
  CASE outcome = "rate limit" -> Pow2(attempt)
    [] outcome = "error" /\ attempt # MaxAttempts - 1 -> 1
    [] OTHER -> 0

\* one pass of the loop: attempt is the number of passes before it
AppendRow ==
  /\ epc = "append"
  /\ Len(sinks.appends) < MaxAttempts
  /\ \E outcome \in AppendOutcomes :
       /\ sinks' =
            [sinks EXCEPT
               !.appends = Append(@, outcome),
               !.sheet_rows = IF outcome = "appended" THEN @ + 1 ELSE @,
               !.waits = IF SleepOf(Len(sinks.appends), outcome) = 0 THEN @
                         ELSE Append(@, SleepOf(Len(sinks.appends), outcome)),
               !.sheet_returned =
                  IF AfterAppend(Len(sinks.appends), outcome) = "again" THEN @
                  ELSE AfterAppend(Len(sinks.appends), outcome)]
       /\ epc' = IF AfterAppend(Len(sinks.appends), outcome) = "again"
                 THEN "append" ELSE "respond"
  /\ UNCHANGED <<enquiry, enq_answer>>
  /\ UNCHANGED NotEnquiry

\* an answer that does not look at db_success
Succeeded_always(db_rows) == db_rows >= 0

\* if db_success
Succeeded(db_rows) == db_rows > 0

\* the last lines: submit_enquiry always answers success, the two others
\* answer by db_success
Respond ==
  /\ epc = "respond"
  /\ enq_answer' =
       IF enquiry.handler = "submit_enquiry" \/ Succeeded(sinks.db_rows)
       THEN EnquiryAnswer(200, TRUE, "")
       ELSE EnquiryAnswer(500, FALSE, "Database error - please try again")
  /\ epc' = "done"
  /\ UNCHANGED <<enquiry, sinks>>
  /\ UNCHANGED NotEnquiry

NextEnquiry ==
  \/ Validate
  \/ Insert
  \/ Email
  \/ Sheet
  \/ AppendRow
  \/ Respond

SpecEnquiry == InitEnquiry /\ [][NextEnquiry]_vars

\* the sinks as they are before the handler has touched any of them
Untouched == sinks.db_calls = 0 /\ sinks.email_calls = 0 /\ sinks.sheet_calls = 0

\* the body lacks a required field
MissingRequired(body) ==
  body.json = "object" /\ \E i \in 1..Len(required_fields) : Falsy(body[required_fields[i]])

\* the email of the body is no email address
MalformedEmail(body) ==
  /\ body.json = "object"
  /\ ~Falsy(body.email)
  /\ (body.email.type # "str" \/ ~validate_email(body.email.text))

\* the contact number of the body is no contact number
MalformedPhone(body) ==
  /\ body.json = "object"
  /\ ~Falsy(body.contactNumber)
  /\ (body.contactNumber.type # "str" \/ ~validate_phone(body.contactNumber.text))

\* C15: a request that lacks a required field, or whose email or contact
\* number is malformed, is answered 400 and no sink has been touched.
C15_InvalidEnquiryIsRejected ==
  (epc = "done"
     /\ (MissingRequired(enquiry) \/ MalformedEmail(enquiry) \/ MalformedPhone(enquiry)))
  => (enq_answer.status = 400 /\ Untouched)

\* the request passed the validators of a handler with three sinks
ValidatedEnquiry ==
  /\ enquiry.handler \in {"submit_service_enquiry", "submit_fee_enquiry"}
  /\ Validation(enquiry) = NoEnquiryAnswer

C17_AllSinksReached ==
  (epc = "done" /\ ValidatedEnquiry
     /\ sinks.db_rows = 1 /\ sinks.smtp = "sent" /\ sinks.sheet_rows = 1)
  => sinks.emails_sent = 1

\* C18: a pass of the append loop follows only a pass that was rate limited,
\* the waits grow, and there are at most three passes.
C18_OnlyRateLimitIsRetried ==
  /\ Len(sinks.appends) <= MaxAttempts
  /\ \A k \in 2..Len(sinks.appends) : sinks.appends[k - 1] = "rate limit"
  /\ \A k \in 2..Len(sinks.waits) : sinks.waits[k] > sinks.waits[k - 1]

\* C26: append_to_google_sheet returns True only if one of its attempts has
\* appended the data row; three rate-limited attempts return False.
C26_TrueOnlyIfAppended ==
  sinks.sheet_returned = "True" => sinks.sheet_rows = 1

\* ---------------------------------------------------------------------------
\* extract_table_data on any page of a bounded shape
\* ---------------------------------------------------------------------------

\* the pages have at most MaxTables <table>, each at most MaxRows <tr>, each
\* at most MaxCells <td>/<th>
MaxTables == 2

MaxRows == 2

MaxCells == 2

SeqsUpTo(S, n) == UNION {[1..k -> S] : k \in 0..n}

DigitOf(n) == <<"0","1","2","3","4","5","6","7","8","9">>[n + 1]

\* the text of the c-th cell of the r-th row of the t-th table: it names its
\* place, with white space that get_text(strip=True) and split() remove
CellText(t, r, c) == <<" ", DigitOf(t), " ", " ", DigitOf(r), DigitOf(c), "\n">>

\* a page is given by the number of cells of each row of each table: a row
\* has no cell, one cell or MaxCells cells
PageShapes == SeqsUpTo(SeqsUpTo({0, 1, MaxCells}, MaxRows), MaxTables)

PageOf(shape) ==
  [tables |->
     [t \in 1..Len(shape) |->
        [r \in 1..Len(shape[t]) |->
           [c \in 1..shape[t][r] |-> CellText(t, r, c)]]],
   effective |-> NoneStr]

Pages == {PageOf(shape) : shape \in PageShapes}

InitExtract ==
  /\ document \in Pages
  /\ extracted = NotExtracted
  /\ IdleDetect /\ IdleFetch /\ IdleChat /\ IdleDownload /\ IdleClients
  /\ IdleEnquiry /\ IdleDate /\ IdleSheet

NotExtract ==
  <<detectVars, fetchVars, chatVars, downloadVars, clientVars, enquiryVars, dateVars, sheetVars>>

\* one call of extract_table_data
Extract ==
  /\ ~extracted.called
  /\ extracted' = [called |-> TRUE, tables_data |-> extract_table_data(document)]
  /\ UNCHANGED document
  /\ UNCHANGED NotExtract

NextExtract == Extract

SpecExtract == InitExtract /\ [][NextExtract]_vars

\* the rows of a table that have a cell, in the order of the page
RowsWithCells(table) == SelectSeq(table, LAMBDA row : row # <<>>)

\* the cells of rows, each as extract_table_data cleans it
CellsOf(rows) == [r \in 1..Len(rows) |-> [c \in 1..Len(rows[r]) |-> CleanCell(rows[r][c])]]

\* the tables that are left with a row, in the order of the page
TablesWithRows(tables) ==
  SelectSeq([t \in 1..Len(tables) |-> CellsOf(RowsWithCells(tables[t]))],
            LAMBDA table : table # <<>>)

\* C19: extract_table_data gives the tables in the order of the page, their
\* rows and cells in source order, without the rows of zero cells and without
\* the tables that are left with no row; a page without tables gives the
\* empty sequence, and the output holds no empty table and no empty row.
C19_ExtractDropsEmptyRowsAndTables ==
  extracted.called
  => /\ extracted.tables_data = TablesWithRows(document.tables)
     /\ \A t \in 1..Len(extracted.tables_data) :
          /\ extracted.tables_data[t] # <<>>
          /\ \A r \in 1..Len(extracted.tables_data[t]) : extracted.tables_data[t][r] # <<>>
     /\ (document.tables = <<>> => extracted.tables_data = <<>>)

\* a page whose first table has only a row without cells and whose second
\* table has such a row before a row of two cells
C19_Witness ==
  /\ extracted.called
  /\ Len(document.tables) = 2
  /\ document.tables[1] = << <<>> >>
  /\ Len(document.tables[2]) = 2
  /\ document.tables[2][1] = <<>>
  /\ Len(document.tables[2][2]) = 2
  /\ extracted.tables_data = << << << <<"2"," ","2","1">>, <<"2"," ","2","2">> >> >> >>

\* ---------------------------------------------------------------------------
\* clean_date on the texts a pattern of extract_effective_date can capture
\* ---------------------------------------------------------------------------

Days == { <<"2","1">>, <<"1">> }

Months == { <<"1","1">>, <<"2">> }

Years == { <<"2","5">>, <<"2","0","2","5">> }

Separators == {"/", "-"}

\* \d{1,2}[/-]\d{1,2}[/-]\d{2,4}
NumericDate(day, s1, month, s2, year) == day \o <<s1>> \o month \o <<s2>> \o year

NumericDates ==
  { NumericDate(d, s1, m, s2, y) :
      d \in Days, s1 \in Separators, m \in Months, s2 \in Separators, y \in Years }

\* \d{1,2}(?:st|nd|rd|th)?\s+[A-Za-z]+,?\s+\d{4}
WordDates ==
  { <<"2","1","s","t"," ","N","o","v","e","m","b","e","r"," ","2","0","2","5">>,
    <<"1"," ","J","a","n",","," ","2","0","2","5">>,
    <<"3","r","d"," ","M","a","r","c","h"," "," ","2","0","2","4">> }

\* the same with white space around, and texts that are no date
OtherTexts ==
  { <<" ">> \o t \o <<"\n">> : t \in NumericDates \cup WordDates }
  \cup
  { NoneStr, <<>>, <<" ">>, <<"s","o","o","n">>, <<"1","1","/","2","5">>,
    <<"1","/","2","/","3","/","4">>, <<"2","1",".","1","1",".","2","5">>,
    <<"2","0","2","5">> }

InitDate ==
  /\ date_in \in NumericDates \cup WordDates \cup OtherTexts
  /\ cleaned = NotCleaned
  /\ recleaned = NotCleaned
  /\ IdleDetect /\ IdleFetch /\ IdleChat /\ IdleDownload /\ IdleClients
  /\ IdleEnquiry /\ IdleExtract /\ IdleSheet

NotDate ==
  <<detectVars, fetchVars, chatVars, downloadVars, clientVars, enquiryVars, extractVars, sheetVars>>

\* clean_date(date_in)
CleanDate ==
  /\ cleaned = NotCleaned
  /\ cleaned' = clean_date(date_in)
  /\ UNCHANGED <<date_in, recleaned>>
  /\ UNCHANGED NotDate

\* clean_date of the result
CleanAgain ==
  /\ cleaned # NotCleaned
  /\ recleaned = NotCleaned
  /\ recleaned' = clean_date(cleaned)
  /\ UNCHANGED <<date_in, cleaned>>
  /\ UNCHANGED NotDate

NextDate ==
  \/ CleanDate
  \/ CleanAgain

SpecDate == InitDate /\ [][NextDate]_vars

\* s ends with tail
EndsWith(s, tail) ==
  Len(s) >= Len(tail) /\ SubSeq(s, Len(s) - Len(tail) + 1, Len(s)) = tail

\* the year of four digits that the claim names for a year
FourDigitYear(year) == IF Len(year) = 2 THEN <<"2","0">> \o year ELSE year

\* C20: clean_date returns a day-month-word-year form unchanged; for a
\* numeric date of three parts delimited by slash or dash the result ends with
\* the year of four digits, "20" put before a year of two digits; and
\* clean_date of a result is that result.
C20_CleanDateNormalForm ==
  /\ (cleaned # NotCleaned /\ date_in \in WordDates) => cleaned = date_in
  /\ \A d \in Days, s1 \in Separators, m \in Months, s2 \in Separators, y \in Years :
       (cleaned # NotCleaned /\ date_in = NumericDate(d, s1, m, s2, y))
       => EndsWith(cleaned, FourDigitYear(y))
  /\ recleaned # NotCleaned => recleaned = cleaned

(***************************************************************************)
(* Concurrent calls of append_to_google_sheet on one worksheet that starts *)
(* empty.  A call is cut at each request to the Sheets API and at the      *)
(* acquisition of gs_lock.                                                 *)
(***************************************************************************)
InitSheet ==
  /\ IdleSheet
  /\ IdleDetect /\ IdleFetch /\ IdleChat /\ IdleDownload /\ IdleClients
  /\ IdleEnquiry /\ IdleExtract /\ IdleDate

NotSheet ==
  <<detectVars, fetchVars, chatVars, downloadVars, clientVars, enquiryVars, extractVars,
    dateVars>>

\* return value of the call c, leaving the function
ReturnFromAppend(c, value) ==
  /\ slocal' = [slocal EXCEPT ![c].returned = value]
  /\ spc' = [spc EXCEPT ![c] = "done"]

\* the switch, the client, the spreadsheet and the worksheet
OpenWorksheet(c) ==
  /\ spc[c] = "new"
  /\ \E sheet \in SheetOutcomes :
       IF GOOGLE_SHEET_ENABLED /\ sheet = "ready"
       THEN /\ spc' = [spc EXCEPT ![c] = "row1"]
            /\ UNCHANGED slocal
       ELSE ReturnFromAppend(c, "False")
  /\ UNCHANGED <<worksheet, gs_lock>>
  /\ UNCHANGED NotSheet

\* worksheet.row_values(1): the first row, [] for an empty sheet
row_values_1(rows) == IF rows = <<>> THEN <<>> ELSE <<rows[1]>>

\* if headers and not worksheet.row_values(1)
HeaderCheck(c) ==
  /\ spc[c] = "row1"
  /\ spc' = [spc EXCEPT ![c] = IF row_values_1(worksheet) = <<>>
                                THEN "add_header" ELSE "read_headers"]
  /\ UNCHANGED <<worksheet, gs_lock, slocal>>
  /\ UNCHANGED NotSheet

\* worksheet.append_row(headers)
AddHeader(c) ==
  /\ spc[c] = "add_header"
  /\ worksheet' = Append(worksheet, "header")
  /\ spc' = [spc EXCEPT ![c] = "read_headers"]
  /\ UNCHANGED <<gs_lock, slocal>>
  /\ UNCHANGED NotSheet

\* sheet_headers = [... for h in worksheet.row_values(1)] and the row built
\* from it
ReadHeaders(c) ==
  /\ spc[c] = "read_headers"
  /\ spc' = [spc EXCEPT ![c] = "lock"]
  /\ UNCHANGED <<worksheet, gs_lock, slocal>>
  /\ UNCHANGED NotSheet

\* with gs_lock:
AcquireGsLock(c) ==
  /\ spc[c] = "lock"
  /\ gs_lock = 0
  /\ gs_lock' = c
  /\ spc' = [spc EXCEPT ![c] = "append"]
  /\ UNCHANGED <<worksheet, slocal>>
  /\ UNCHANGED NotSheet

\* one pass of the retry loop; leaving the loop leaves the with block
AppendData(c) ==
  /\ spc[c] = "append"
  /\ gs_lock = c
  /\ \E outcome \in AppendOutcomes :
       /\ worksheet' = IF outcome = "appended" THEN Append(worksheet, "data") ELSE worksheet
       /\ IF AfterAppend(slocal[c].attempt, outcome) = "again"
          THEN /\ slocal' = [slocal EXCEPT ![c].attempt = @ + 1]
               /\ UNCHANGED <<spc, gs_lock>>
          ELSE /\ slocal' = [slocal EXCEPT ![c].attempt = @ + 1,
                                           ![c].returned = AfterAppend(slocal[c].attempt, outcome)]
               /\ spc' = [spc EXCEPT ![c] = "done"]
               /\ gs_lock' = 0
  /\ UNCHANGED NotSheet

NextSheet ==
  \E c \in Callers :
    \/ OpenWorksheet(c)
    \/ HeaderCheck(c)
    \/ AddHeader(c)
    \/ ReadHeaders(c)
    \/ AcquireGsLock(c)
    \/ AppendData(c)

SpecSheet == InitSheet /\ [][NextSheet]_vars

\* the positions of the header rows in the worksheet
HeaderRows == {i \in 1..Len(worksheet) : worksheet[i] = "header"}

\* C27: in every interleaving of the calls on the initially empty worksheet
\* the header row is written at most once and is the first row, every data
\* row after it.
C27_HeaderOnceAndFirst == HeaderRows \subseteq {1}
=============================================================================
